---- MODULE Spec2Model ----
(***************************************************************************)
(* Model of the battleship server: the matchmaking queue, the game         *)
(* registry, the game logic (placement, shots, turns), the socket handlers *)
(* with their outbound messages, and the turn timers.                      *)
(*                                                                         *)
(* Times are milliseconds, as in the code.  Player and game ids are the    *)
(* random strings of generatePlayerId / generateGameId; the model draws    *)
(* them as fresh integers.  The fleet is the tail of SHIP_SIZES named by   *)
(* FleetTypes, and the literal 5 of `shipsRemaining: 5` is the size of     *)
(* that fleet, so that a fleet can be placed and sunk inside the part of   *)
(* the 10x10 board the inputs reach.  A socket handler runs as one step,   *)
(* except handleJoinQueue, which stops at its await.  Timers set for the   *)
(* same game, turn and instant are one timer: the second callback finds    *)
(* the turn just restarted and changes nothing.                            *)
(***************************************************************************)
EXTENDS Integers, Sequences, FiniteSets, TLC

\* ------------------------------------------------------------ constants
BOARD_SIZE == 10
TURN_TIMER == 60000
INACTIVE_TIMEOUT == 60000
DISCONNECT_MARK == 70000
RECONNECT_STALE == 30000
GAME_TIMEOUT == 120000
GAME_MAX_AGE == 3600000
CLEANUP_INTERVAL == 60000

SHIP_SIZES ==
    [carrier |-> 5, battleship |-> 4, cruiser |-> 3, submarine |-> 3, destroyer |-> 2]

\* The ship types of a fleet, in the order of SHIP_SIZES.
FleetTypes == <<"submarine", "destroyer">>

FLEET_SIZE == Len(FleetTypes)

\* ------------------------------------------------------------ bounds
\* Date.now() when the server starts and the last instant the model's clock reaches.
StartTime == 100000
MaxNow == 170000
\* The last instant the clock of the timing specification reaches.
MaxLate == 240000
\* The players and the matches of the specification of the two services.
QueuePlayers == 3
MaxMatches == 2
\* How many players (join-queue events) the model creates.
MaxPlayers == 2
\* How many cleanup intervals in a row the clock of the cleanup specification runs
\* through, at the start and after the step of a match's maximum age.
GcTicks == 2

\* ------------------------------------------------------------ values
\* The step of the clock: longer than a turn and than the reconnect staleness window.
TickStep == TURN_TIMER + 10000
NoId == 0
NoTime == 0
NoShip == "none"
Conns == {"s1", "s2", "s3"}

Pos == (0 .. BOARD_SIZE - 1) \X (0 .. BOARD_SIZE - 1)

\* ------------------------------------------------------------ shared/utils
EmptyCell == [state |-> "empty", shipId |-> NoShip]

createEmptyBoard == [pos \in Pos |-> EmptyCell]

createDefaultShips ==
    [i \in 1 .. Len(FleetTypes) |->
        [id |-> FleetTypes[i] \o "-1", type |-> FleetTypes[i],
         size |-> SHIP_SIZES[FleetTypes[i]],
         positions |-> <<>>, isPlaced |-> FALSE, isSunk |-> FALSE]]

isValidPosition(position) ==
    /\ position[1] >= 0
    /\ position[1] < BOARD_SIZE
    /\ position[2] >= 0
    /\ position[2] < BOARD_SIZE

getShipPositions(startPosition, size, direction) ==
    [i \in 1 .. size |->
        IF direction = "horizontal"
        THEN <<startPosition[1], startPosition[2] + (i - 1)>>
        ELSE <<startPosition[1] + (i - 1), startPosition[2]>>]

\* A variant that takes every cell for free.
canPlaceShipOverShips(board, positions) == TRUE

canPlaceShipAtPositions(board, positions) ==
    \A i \in 1 .. Len(positions) :
        /\ isValidPosition(positions[i])
        /\ board[positions[i]].state = "empty"

positionsEqual(pos1, pos2) == pos1[1] = pos2[1] /\ pos1[2] = pos2[2]

shipContainsPosition(ship, position) ==
    \E i \in 1 .. Len(ship.positions) : positionsEqual(ship.positions[i], position)

\* A variant that takes one hit segment for a fully hit ship.
isShipAnyHit(ship, board) ==
    \E i \in 1 .. Len(ship.positions) :
        /\ ship.positions[i] \in DOMAIN board
        /\ board[ship.positions[i]].state \in {"hit", "sunk"}

\* A variant of isShipFullyHit that is content with the cells of the ship but one.
isShipNearlyHit(ship, board) ==
    Cardinality({k \in 1 .. Len(ship.positions) :
                    board[ship.positions[k]].state \in {"hit", "sunk"}})
        >= Len(ship.positions) - 1

isShipFullyHit(ship, board) ==
    \A i \in 1 .. Len(ship.positions) :
        /\ ship.positions[i] \in DOMAIN board
        /\ board[ship.positions[i]].state \in {"hit", "sunk"}

\* markShipAsSunk: the grid with every cell of the ship sunk.
markShipAsSunkGrid(ship, board) ==
    [pos \in Pos |->
        IF shipContainsPosition(ship, pos) THEN [board[pos] EXCEPT !.state = "sunk"]
        ELSE board[pos]]

areAllShipsPlaced(ships) == \A i \in 1 .. Len(ships) : ships[i].isPlaced

\* ------------------------------------------------------------ GameLogic
Valid == [isValid |-> TRUE, error |-> ""]
Invalid(msg) == [isValid |-> FALSE, error |-> msg]

PosLess(a, b) == IF a[1] # b[1] THEN a[1] < b[1] ELSE a[2] < b[2]

\* A variant of arePositionsContiguous that takes the positions in the order given.
arePositionsInOrder(positions) ==
    IF Len(positions) <= 1 THEN TRUE
    ELSE
        LET n == Len(positions)
        IN  IF \A i \in 1 .. n : positions[i][1] = positions[1][1]
            THEN \A i \in 2 .. n : positions[i][2] = positions[i - 1][2] + 1
            ELSE IF \A i \in 1 .. n : positions[i][2] = positions[1][2]
            THEN \A i \in 2 .. n : positions[i][1] = positions[i - 1][1] + 1
            ELSE FALSE

arePositionsContiguous(positions) ==
    IF Len(positions) <= 1 THEN TRUE
    ELSE
        LET sortedPositions == SortSeq(positions, PosLess)
            n == Len(sortedPositions)
            isHorizontal == \A i \in 1 .. n : sortedPositions[i][1] = sortedPositions[1][1]
            isVertical == \A i \in 1 .. n : sortedPositions[i][2] = sortedPositions[1][2]
        IN  IF isHorizontal
            THEN \A i \in 2 .. n : sortedPositions[i][2] = sortedPositions[i - 1][2] + 1
            ELSE IF isVertical
            THEN \A i \in 2 .. n : sortedPositions[i][1] = sortedPositions[i - 1][1] + 1
            ELSE FALSE

canPlaceShip(board, ship, positions) ==
    IF ~(\A i \in 1 .. Len(positions) : isValidPosition(positions[i]))
    THEN Invalid("Ship placement outside board boundaries")
    ELSE IF Len(positions) # ship.size
    THEN Invalid("Ship requires size positions")
    ELSE IF ~arePositionsContiguous(positions)
    THEN Invalid("Ship positions must be contiguous and in a straight line")
    ELSE IF ~canPlaceShipAtPositions(board, positions)
    THEN Invalid("Ship positions overlap with existing ships")
    ELSE Valid

\* The index of the first ship of the fleet with this id (0: none); Array.find.
FindShip(ships, shipId) ==
    IF \E i \in 1 .. Len(ships) : ships[i].id = shipId
    THEN CHOOSE i \in 1 .. Len(ships) :
            /\ ships[i].id = shipId
            /\ \A j \in 1 .. (i - 1) : ships[j].id # shipId
    ELSE 0

\* A variant that leaves the old footprint on the grid.
KeepFootprint(grid, ship) == grid

\* The cells of the ship's footprint that it still owns, emptied.
ClearFootprint(grid, ship) ==
    [pos \in Pos |->
        IF shipContainsPosition(ship, pos) /\ grid[pos].shipId = ship.id
        THEN EmptyCell ELSE grid[pos]]

\* A variant of removeShipFromBoard that forgets the ship and leaves its cells.
removeShipLeaveCells(player, i) ==
    [player EXCEPT !.board.ships[i].positions = <<>>,
                   !.board.ships[i].isPlaced = FALSE]

removeShipFromBoard(player, i) ==
    LET ship == player.board.ships[i]
    IN  IF ~ship.isPlaced THEN player
        ELSE [player EXCEPT
                !.board.grid = ClearFootprint(@, ship),
                !.board.ships[i].positions = <<>>,
                !.board.ships[i].isPlaced = FALSE]

placeShipOnBoard(player, i, positions) ==
    LET ship == player.board.ships[i]
        cleared == IF ship.isPlaced THEN ClearFootprint(player.board.grid, ship)
                   ELSE player.board.grid
        occupied == {positions[k] : k \in 1 .. Len(positions)}
    IN  [player EXCEPT
            !.board.ships[i].positions = positions,
            !.board.ships[i].isPlaced = TRUE,
            !.board.grid = [pos \in Pos |->
                IF pos \in occupied THEN [state |-> "ship", shipId |-> ship.id]
                ELSE cleared[pos]]]

\* game.players.find(p => p.id !== playerId): the first player with another id.
Opponent(game, playerId) ==
    IF game.players[1] # playerId THEN game.players[1]
    ELSE IF game.players[2] # playerId THEN game.players[2]
    ELSE NoId

\* A variant that looks at the position before it looks at the turn.
canFireShotBoundsFirst(game, P, playerId, position) ==
    IF game.phase # "playing"
    THEN Invalid("Cannot fire shots during placement phase")
    ELSE IF ~isValidPosition(position)
    THEN Invalid("Shot position is outside board boundaries")
    ELSE IF game.currentPlayerId # playerId
    THEN Invalid("It is not your turn")
    ELSE IF Opponent(game, playerId) = NoId
    THEN Invalid("Opponent not found")
    ELSE IF P[Opponent(game, playerId)].board.grid[position].state
                \in {"hit", "miss", "sunk"}
    THEN Invalid("Position has already been targeted")
    ELSE Valid

\* A variant that keeps the cells of a sunk ship open to fire.
canFireShotAtSunk(game, P, playerId, position) ==
    IF game.phase # "playing"
    THEN Invalid("Cannot fire shots during placement phase")
    ELSE IF game.currentPlayerId # playerId
    THEN Invalid("It is not your turn")
    ELSE IF ~isValidPosition(position)
    THEN Invalid("Shot position is outside board boundaries")
    ELSE IF Opponent(game, playerId) = NoId
    THEN Invalid("Opponent not found")
    ELSE IF P[Opponent(game, playerId)].board.grid[position].state \in {"hit", "miss"}
    THEN Invalid("Position has already been targeted")
    ELSE Valid

canFireShot(game, P, playerId, position) ==
    IF game.phase # "playing"
    THEN Invalid("Cannot fire shots during placement phase")
    ELSE IF game.currentPlayerId # playerId
    THEN Invalid("It is not your turn")
    ELSE IF ~isValidPosition(position)
    THEN Invalid("Shot position is outside board boundaries")
    ELSE IF Opponent(game, playerId) = NoId
    THEN Invalid("Opponent not found")
    ELSE IF P[Opponent(game, playerId)].board.grid[position].state \in {"hit", "miss", "sunk"}
    THEN Invalid("Position has already been targeted")
    ELSE Valid

\* A variant that hands the turn back to the player who holds it.
getSamePlayer(game) == game.currentPlayerId

getNextPlayer(game) ==
    LET currentIndex == IF game.players[1] = game.currentPlayerId THEN 0
                        ELSE IF game.players[2] = game.currentPlayerId THEN 1
                        ELSE -1
        nextIndex == (currentIndex + 1) % 2
    IN  game.players[nextIndex + 1]

isTurnTimedOut(game, clock) ==
    IF game.turnStartTime = NoTime THEN FALSE
    ELSE (clock - game.turnStartTime) > game.turnTimer

switchTurn(game, clock) ==
    [game EXCEPT !.currentPlayerId = getNextPlayer(game), !.turnStartTime = clock]

\* The first ship of the fleet that contains the position (0: none).
FindHitShip(ships, position) ==
    IF \E i \in 1 .. Len(ships) : shipContainsPosition(ships[i], position)
    THEN CHOOSE i \in 1 .. Len(ships) :
            /\ shipContainsPosition(ships[i], position)
            /\ \A j \in 1 .. (i - 1) : ~shipContainsPosition(ships[j], position)
    ELSE 0

\* processShot: the game and the opponent after the shot, and what it reports.
processShot(game, P, playerId, position) ==
    LET oid == Opponent(game, playerId)
        opponent == P[oid]
        targetCell == opponent.board.grid[position]
        h == FindHitShip(opponent.board.ships, position)
    IN  IF h # 0 /\ targetCell.state = "ship"
        THEN
            LET hitGrid == [opponent.board.grid EXCEPT ![position].state = "hit"]
                hitShip == opponent.board.ships[h]
            IN  IF isShipFullyHit(hitShip, hitGrid)
                THEN
                    LET remaining == opponent.board.shipsRemaining - 1
                        gameOver == (remaining = 0)
                        sunkOpp == [opponent EXCEPT
                                      !.board.grid = markShipAsSunkGrid(hitShip, hitGrid),
                                      !.board.ships[h].isSunk = TRUE,
                                      !.board.shipsRemaining = remaining]
                    IN  [game |-> IF gameOver
                                  THEN [game EXCEPT !.phase = "finished", !.winner = playerId]
                                  ELSE game,
                         opponent |-> sunkOpp,
                         result |-> "sunk", shipSunk |-> hitShip.id,
                         gameOver |-> gameOver,
                         winner |-> IF gameOver THEN playerId ELSE NoId]
                ELSE [game |-> game,
                      opponent |-> [opponent EXCEPT !.board.grid = hitGrid],
                      result |-> "hit", shipSunk |-> NoShip, gameOver |-> FALSE,
                      winner |-> NoId]
        ELSE [game |-> game,
              opponent |-> [opponent EXCEPT !.board.grid[position].state = "miss"],
              result |-> "miss", shipSunk |-> NoShip, gameOver |-> FALSE, winner |-> NoId]

\* ------------------------------------------------------------ state
VARIABLES
    now,            \* Date.now()
    queue,          \* MatchmakingService.queue: the ids of the waiting players
    players,        \* the Player objects by id
    games,          \* the Game objects by id (also those no longer registered)
    registry,       \* the ids GameService.games holds
    sockData,       \* socket.data of each connection: playerId and gameId
    open,           \* the connections that have not disconnected
    rooms,          \* the game rooms each connection has joined
    socketRegistry, \* playerId -> socket id, "" when absent
    reverseSocketRegistry, \* socket id -> playerId, NoId when absent
    pending,        \* games whose handleJoinQueue awaits the background
    timers,         \* the turn timers set and not yet fired: game id and due time
    outbox,         \* what the last step emitted, in order: [to, msg]
    accepted        \* history: the shots fireShot has accepted: [game, player, position]

vars == <<now, queue, players, games, registry, sockData, open, rooms, socketRegistry,
          reverseSocketRegistry, pending, timers, outbox, accepted>>

NoConn == ""
ConnSeq == <<"s1", "s2", "s3">>
PlayerIds == 1 .. MaxPlayers
GameIds == 1 .. (MaxPlayers \div 2)

\* getGame(gameId) is games[gameId] when HasGame(gameId), and null otherwise.
HasGame(gameId) == gameId \in registry

\* game.players.find(p => p.id === playerId)
InGame(game, playerId) == playerId = game.players[1] \/ playerId = game.players[2]

findSocketByPlayerId(playerId) ==
    IF socketRegistry[playerId] \in open THEN socketRegistry[playerId] ELSE NoConn

\* ------------------------------------------------------------ messages
Msg(to, m) == [to |-> to, msg |-> m]

PublicInfo(p) ==
    [id |-> p.id, sessionId |-> p.sessionId, isReady |-> p.isReady,
     lastActivity |-> p.lastActivity]

\* The payload of sendGameState for this player.
GameStateView(game, P, playerId) ==
    LET opponent == P[Opponent(game, playerId)]
    IN  [type |-> "game-state", id |-> game.id, currentPlayerId |-> game.currentPlayerId,
         phase |-> game.phase, winner |-> game.winner, background |-> game.background,
         createdAt |-> game.createdAt, turnTimer |-> game.turnTimer,
         turnStartTime |-> game.turnStartTime,
         player |-> P[playerId],
         opponent |-> [id |-> opponent.id, sessionId |-> opponent.sessionId,
                       isReady |-> opponent.isReady, lastActivity |-> opponent.lastActivity,
                       board |-> opponent.board]]

\* sendGameState emits the view of the game as it is when the handler sends it, which
\* is the state its step ends in: the outbox names the game and the player, and
\* Payload gives the view.
sendGameState(socket, game, playerId) ==
    IF ~InGame(game, playerId) \/ Opponent(game, playerId) = NoId THEN <<>>
    ELSE <<Msg(socket, [type |-> "game-state", game |-> game.id, playerId |-> playerId])>>

Payload(m) == GameStateView(games[m.game], players, m.playerId)

\* One player's share of broadcastGameState, with the registry as it is now.
SendToPlayer(game, playerId) ==
    IF findSocketByPlayerId(playerId) = NoConn THEN <<>>
    ELSE sendGameState(findSocketByPlayerId(playerId), game, playerId)

broadcastGameState(game) ==
    SendToPlayer(game, game.players[1]) \o SendToPlayer(game, game.players[2])

\* socket.to(room).emit: every other open connection in the game's room.
RoomEmit(socket, gameId, m) ==
    LET F[i \in 0 .. Len(ConnSeq)] ==
            IF i = 0 THEN <<>>
            ELSE IF ConnSeq[i] # socket /\ ConnSeq[i] \in open /\ gameId \in rooms[ConnSeq[i]]
                 THEN F[i - 1] \o <<Msg(ConnSeq[i], m)>>
                 ELSE F[i - 1]
    IN  F[Len(ConnSeq)]

ErrorMsg(text) == [type |-> "error", error |-> text]

\* ------------------------------------------------------------ initial state
Init ==
    /\ now = StartTime
    /\ queue = <<>>
    /\ players = <<>>
    /\ games = <<>>
    /\ registry = {}
    /\ sockData = [c \in Conns |-> [playerId |-> NoId, gameId |-> NoId]]
    /\ open = Conns
    /\ rooms = [c \in Conns |-> {}]
    /\ socketRegistry = [p \in PlayerIds |-> NoConn]
    /\ reverseSocketRegistry = [c \in Conns |-> NoId]
    /\ pending = {}
    /\ timers = {}
    /\ outbox = <<>>
    /\ accepted = {}

\* ------------------------------------------------------------ services
createPlayer(sessionId, id) ==
    [id |-> id, sessionId |-> sessionId, isReady |-> FALSE, lastActivity |-> now,
     board |-> [ships |-> createDefaultShips, grid |-> createEmptyBoard,
                shipsRemaining |-> FLEET_SIZE]]

\* A variant of addToQueue that pushes without looking.
addToQueueAgain(q, id) == Append(q, id)

addToQueue(q, id) == IF \E i \in 1 .. Len(q) : q[i] = id THEN q ELSE Append(q, id)

\* A variant of removeFromQueue by splice(indexOf(id), 1): an absent id takes
\* the last player off.
removeFromQueueSplice(q, id) ==
    IF \E i \in 1 .. Len(q) : q[i] = id THEN SelectSeq(q, LAMBDA x : x # id)
    ELSE SubSeq(q, 1, Len(q) - 1)

removeFromQueue(q, id) == SelectSeq(q, LAMBDA x : x # id)

\* attemptMatch's game for the two players at the head of the queue.
NewGame(id, player1, player2) ==
    [id |-> id, players |-> <<player1, player2>>, currentPlayerId |-> player1,
     phase |-> "placement", winner |-> NoId, background |-> "",
     createdAt |-> now, turnTimer |-> TURN_TIMER, turnStartTime |-> NoTime]

\* A variant that leaves the board of a matched player as it is.
KeepBoard(player) == player

FreshBoard(player) ==
    [player EXCEPT !.board = [ships |-> createDefaultShips, grid |-> createEmptyBoard,
                              shipsRemaining |-> FLEET_SIZE]]

\* ------------------------------------------------------------ join-queue
\* handleJoinQueue up to its await, then the listener that fills the registries.
JoinQueue(c) ==
    /\ c \in open
    /\ Len(players) < MaxPlayers
    /\ LET id == Len(players) + 1
           q1 == addToQueue(queue, id)
           P1 == Append(players, createPlayer(c, id))
       IN  /\ sockData' = [sockData EXCEPT ![c].playerId = id]
           /\ socketRegistry' = [socketRegistry EXCEPT ![id] = c]
           /\ reverseSocketRegistry' = [reverseSocketRegistry EXCEPT ![c] = id]
           /\ outbox' = <<Msg(c, [type |-> "queue-joined"])>>
           /\ IF Len(q1) < 2
              THEN /\ queue' = q1
                   /\ players' = P1
                   /\ UNCHANGED <<games, registry, pending>>
              ELSE LET gid == Len(games) + 1
                   IN  /\ queue' = SubSeq(q1, 3, Len(q1))
                       /\ players' = [P1 EXCEPT ![q1[1]] = FreshBoard(@),
                                                ![q1[2]] = FreshBoard(@)]
                       /\ games' = Append(games, NewGame(gid, q1[1], q1[2]))
                       /\ registry' = registry \cup {gid}
                       /\ pending' = pending \cup {gid}
    /\ UNCHANGED <<now, open, rooms, timers, accepted>>

\* A variant that sends the game state before it announces the game.
NotifyStateFirst(game, P, playerId) ==
    LET s == findSocketByPlayerId(playerId)
        opp == Opponent(game, playerId)
    IN  IF s = NoConn THEN <<>>
        ELSE sendGameState(s, game, playerId)
             \o <<Msg(s, [type |-> "game-found", gameId |-> game.id, playerId |-> playerId,
                          opponent |-> IF opp = NoId THEN NoId ELSE PublicInfo(P[opp])])>>

\* What handleJoinQueue sends one player of the new game, if its socket is found.
NotifyFound(game, P, playerId) ==
    LET s == findSocketByPlayerId(playerId)
        opp == Opponent(game, playerId)
    IN  IF s = NoConn THEN <<>>
        ELSE <<Msg(s, [type |-> "game-found", gameId |-> game.id, playerId |-> playerId,
                       opponent |-> IF opp = NoId THEN NoId ELSE PublicInfo(P[opp])])>>
             \o sendGameState(s, game, playerId)

\* handleJoinQueue after generateBackground has returned.
JoinResume(gid) ==
    /\ gid \in pending
    /\ pending' = pending \ {gid}
    /\ games' = [games EXCEPT ![gid].background = "bg"]
    /\ LET game == games'[gid]
           found == {findSocketByPlayerId(game.players[k]) : k \in 1 .. 2} \ {NoConn}
       IN  /\ sockData' = [c \in Conns |->
                  IF c \in found THEN [sockData[c] EXCEPT !.gameId = gid] ELSE sockData[c]]
           /\ rooms' = [c \in Conns |->
                  IF c \in found THEN rooms[c] \cup {gid} ELSE rooms[c]]
           /\ outbox' = NotifyFound(game, players, game.players[1])
                        \o NotifyFound(game, players, game.players[2])
    /\ UNCHANGED <<now, queue, players, registry, open, socketRegistry,
                   reverseSocketRegistry, timers, accepted>>

\* ------------------------------------------------------------ GameService
updatePlayerActivity(P, gameId, playerId) ==
    IF HasGame(gameId) /\ InGame(games[gameId], playerId)
    THEN [P EXCEPT ![playerId].lastActivity = now]
    ELSE P

\* placeShip: success or the error, and the players after it.
placeShip(gameId, playerId, shipId, positions) ==
    IF ~HasGame(gameId)
    THEN [success |-> FALSE, error |-> "Game not found", players |-> players, ship |-> 0]
    ELSE IF ~InGame(games[gameId], playerId)
    THEN [success |-> FALSE, error |-> "Player not found", players |-> players, ship |-> 0]
    ELSE IF games[gameId].phase # "placement"
    THEN [success |-> FALSE, error |-> "Ship placement not allowed in current game phase",
          players |-> players, ship |-> 0]
    ELSE
        LET player == players[playerId]
            i == FindShip(player.board.ships, shipId)
        IN  IF i = 0
            THEN [success |-> FALSE, error |-> "Ship not found", players |-> players,
                  ship |-> 0]
            ELSE IF Len(positions) = 0
            THEN [success |-> TRUE, error |-> "",
                  players |-> [players EXCEPT ![playerId] = removeShipFromBoard(player, i)],
                  ship |-> i]
            ELSE
                LET validation == canPlaceShip(player.board.grid, player.board.ships[i],
                                               positions)
                IN  IF ~validation.isValid
                    THEN [success |-> FALSE, error |-> validation.error,
                          players |-> players, ship |-> 0]
                    ELSE [success |-> TRUE, error |-> "",
                          players |-> [players EXCEPT
                              ![playerId] = placeShipOnBoard(player, i, positions)],
                          ship |-> i]

\* A variant of setPlayerReady without the check of the phase.
setPlayerReadyAnyPhase(gameId, playerId) ==
    IF ~HasGame(gameId) \/ ~InGame(games[gameId], playerId)
    THEN [found |-> FALSE, game |-> 0, players |-> players]
    ELSE
        LET game == games[gameId]
        IN  IF ~areAllShipsPlaced(players[playerId].board.ships)
            THEN [found |-> TRUE, game |-> game, players |-> players]
            ELSE
                LET P1 == [players EXCEPT ![playerId].isReady = TRUE]
                IN  IF P1[game.players[1]].isReady /\ P1[game.players[2]].isReady
                    THEN [found |-> TRUE,
                          game |-> [game EXCEPT !.phase = "playing", !.turnStartTime = now],
                          players |-> P1]
                    ELSE [found |-> TRUE, game |-> game, players |-> P1]

\* setPlayerReady: found is FALSE when it returns null; else the game and players.
setPlayerReady(gameId, playerId) ==
    IF ~HasGame(gameId) \/ ~InGame(games[gameId], playerId)
    THEN [found |-> FALSE, game |-> 0, players |-> players]
    ELSE
        LET game == games[gameId]
        IN  IF game.phase # "placement"
            THEN [found |-> TRUE, game |-> game, players |-> players]
            ELSE IF ~areAllShipsPlaced(players[playerId].board.ships)
            THEN [found |-> TRUE, game |-> game, players |-> players]
            ELSE
                LET P1 == [players EXCEPT ![playerId].isReady = TRUE]
                IN  IF P1[game.players[1]].isReady /\ P1[game.players[2]].isReady
                    THEN [found |-> TRUE,
                          game |-> [game EXCEPT !.phase = "playing", !.turnStartTime = now],
                          players |-> P1]
                    ELSE [found |-> TRUE, game |-> game, players |-> P1]

\* A variant that switches the turn after the winning shot too.
TurnAlwaysSwitched(shotResult) == switchTurn(shotResult.game, now)

\* fireShot's turn switch: if (!shotResult.gameOver) switchTurn(game).
TurnAfterShot(shotResult) ==
    IF ~shotResult.gameOver THEN switchTurn(shotResult.game, now) ELSE shotResult.game

\* fireShot: the error, or the shot's report with the game and players after it.
fireShot(gameId, playerId, position) ==
    IF ~HasGame(gameId)
    THEN [success |-> FALSE, error |-> "Game not found"]
    ELSE
        LET game == games[gameId]
            validation == canFireShot(game, players, playerId, position)
        IN  IF ~validation.isValid
            THEN [success |-> FALSE, error |-> validation.error]
            ELSE
                LET shotResult == processShot(game, players, playerId, position)
                IN  [success |-> TRUE, error |-> "",
                     result |-> shotResult.result, position |-> position,
                     shipSunk |-> shotResult.shipSunk, gameOver |-> shotResult.gameOver,
                     winner |-> shotResult.winner,
                     game |-> TurnAfterShot(shotResult),
                     players |-> [players EXCEPT
                                    ![shotResult.opponent.id] = shotResult.opponent]]

\* A variant of handleTurnTimeout that ends the match in favour of the waiting player.
handleTurnTimeoutForfeit(game) ==
    IF isTurnTimedOut(game, now)
    THEN [game EXCEPT !.phase = "finished", !.winner = getNextPlayer(game)]
    ELSE game

\* handleTurnTimeout on a registered game.
handleTurnTimeout(game) ==
    IF isTurnTimedOut(game, now) THEN switchTurn(game, now) ELSE game

\* ------------------------------------------------------------ socket handlers
NoActiveGame(c) ==
    /\ outbox' = <<Msg(c, ErrorMsg("No active game"))>>
    /\ UNCHANGED <<now, queue, players, games, registry, sockData, open, rooms,
                   socketRegistry, reverseSocketRegistry, pending, timers, accepted>>

handlePlaceShip(c, shipId, positions) ==
    /\ c \in open
    /\ LET gameId == sockData[c].gameId
           playerId == sockData[c].playerId
       IN  IF gameId = NoId \/ playerId = NoId THEN NoActiveGame(c)
           ELSE
               LET result == placeShip(gameId, playerId, shipId, positions)
               IN  IF result.success
                   THEN /\ players' = updatePlayerActivity(result.players, gameId, playerId)
                        /\ outbox' =
                             <<Msg(c, [type |-> "ship-placed",
                                       ship |-> result.players[playerId].board.ships[result.ship],
                                       isValid |-> TRUE, error |-> ""])>>
                             \o broadcastGameState(games[gameId])
                   ELSE /\ players' = players
                        /\ outbox' = <<Msg(c, [type |-> "ship-placed", ship |-> NoShip,
                                               isValid |-> FALSE, error |-> result.error])>>
    /\ UNCHANGED <<now, queue, games, registry, sockData, open, rooms, socketRegistry,
                   reverseSocketRegistry, pending, timers, accepted>>

\* startTurnTimer: setTimeout(..., game.turnTimer).  The timer also remembers the
\* turnStartTime of the turn it was set in (history: the callback does not read it).
startTurnTimer(T, game) ==
    T \cup {[game |-> game.id, due |-> now + game.turnTimer, armed |-> game.turnStartTime]}

handleReadyToPlay(c) ==
    /\ c \in open
    /\ LET gameId == sockData[c].gameId
           playerId == sockData[c].playerId
       IN  IF gameId = NoId \/ playerId = NoId THEN NoActiveGame(c)
           ELSE
               LET r == setPlayerReady(gameId, playerId)
               IN  IF r.found
                   THEN /\ players' = updatePlayerActivity(r.players, gameId, playerId)
                        /\ games' = [games EXCEPT ![gameId] = r.game]
                        /\ outbox' = broadcastGameState(r.game)
                        /\ timers' = IF r.game.phase = "playing"
                                     THEN startTurnTimer(timers, r.game) ELSE timers
                   ELSE /\ outbox' = <<>>
                        /\ UNCHANGED <<players, games, timers>>
    /\ UNCHANGED <<now, queue, registry, sockData, open, rooms, socketRegistry,
                   reverseSocketRegistry, pending, accepted>>

ShotResultMsg(result, playerId) ==
    [type |-> "shot-result", position |-> result.position, result |-> result.result,
     shipSunk |-> result.shipSunk, gameOver |-> result.gameOver, shooter |-> playerId]

GameEndedMsg(result) == [type |-> "game-ended", winner |-> result.winner, reason |-> "victory"]

\* A variant that tells the room of the game as well.
ShotRefusedToRoom(c, gameId, error) ==
    RoomEmit(c, gameId, ErrorMsg(error)) \o <<Msg(c, ErrorMsg(error))>>

\* What handleFireShot emits when fireShot fails: socket.emit('error', ...).
ShotRefused(c, gameId, error) == <<Msg(c, ErrorMsg(error))>>

handleFireShot(c, position) ==
    /\ c \in open
    /\ LET gameId == sockData[c].gameId
           playerId == sockData[c].playerId
       IN  IF gameId = NoId \/ playerId = NoId THEN NoActiveGame(c)
           ELSE
               LET result == fireShot(gameId, playerId, position)
               IN  IF result.success
                   THEN /\ games' = [games EXCEPT ![gameId] = result.game]
                        /\ players' = [result.players EXCEPT ![playerId].lastActivity = now]
                        /\ outbox' =
                             RoomEmit(c, gameId, ShotResultMsg(result, playerId))
                             \o <<Msg(c, ShotResultMsg(result, playerId))>>
                             \o broadcastGameState(result.game)
                             \o (IF result.gameOver
                                 THEN RoomEmit(c, gameId, GameEndedMsg(result))
                                      \o <<Msg(c, GameEndedMsg(result))>>
                                 ELSE <<>>)
                        /\ timers' = IF result.gameOver THEN timers
                                     ELSE startTurnTimer(timers, result.game)
                        /\ accepted' = accepted \cup
                             {[game |-> gameId, player |-> playerId, position |-> position]}
                   ELSE /\ outbox' = ShotRefused(c, gameId, result.error)
                        /\ UNCHANGED <<players, games, timers, accepted>>
    /\ UNCHANGED <<now, queue, registry, sockData, open, rooms, socketRegistry,
                   reverseSocketRegistry, pending>>

\* A variant that hands the first slot to a connection that has no claim to one.
ReconnectSlotAnyCaller(game, c) ==
    IF players[game.players[2]].sessionId = c THEN game.players[2]
    ELSE game.players[1]

\* A variant that looks for a stale slot before it looks for the caller's own.
ReconnectSlotStaleFirst(game, c) ==
    IF now - players[game.players[1]].lastActivity > RECONNECT_STALE
    THEN game.players[1]
    ELSE IF now - players[game.players[2]].lastActivity > RECONNECT_STALE
    THEN game.players[2]
    ELSE IF players[game.players[1]].sessionId = c THEN game.players[1]
    ELSE IF players[game.players[2]].sessionId = c THEN game.players[2]
    ELSE NoId

\* The player slot handleReconnectGame picks (NoId: none).
ReconnectSlot(game, c) ==
    IF players[game.players[1]].sessionId = c THEN game.players[1]
    ELSE IF players[game.players[2]].sessionId = c THEN game.players[2]
    ELSE IF now - players[game.players[1]].lastActivity > RECONNECT_STALE
    THEN game.players[1]
    ELSE IF now - players[game.players[2]].lastActivity > RECONNECT_STALE
    THEN game.players[2]
    ELSE NoId

handleReconnectGame(c, gameId) ==
    /\ c \in open
    /\ IF ~HasGame(gameId)
       THEN /\ outbox' = <<Msg(c, ErrorMsg("Game not found"))>>
            /\ UNCHANGED <<players, sockData, rooms>>
       ELSE
           LET game == games[gameId]
               playerId == ReconnectSlot(game, c)
           IN  IF playerId = NoId
               THEN /\ outbox' = <<Msg(c, ErrorMsg("Cannot reconnect to this game"))>>
                    /\ UNCHANGED <<players, sockData, rooms>>
               ELSE /\ players' = [players EXCEPT ![playerId].sessionId = c,
                                                  ![playerId].lastActivity = now]
                    /\ sockData' = [sockData EXCEPT
                                      ![c] = [playerId |-> playerId, gameId |-> gameId]]
                    /\ rooms' = [rooms EXCEPT ![c] = @ \cup {gameId}]
                    /\ outbox' = RoomEmit(c, gameId, [type |-> "player-reconnected"])
                                 \o sendGameState(c, game, playerId)
    /\ UNCHANGED <<now, queue, games, registry, open, socketRegistry,
                   reverseSocketRegistry, pending, timers, accepted>>

\* The disconnect listener: the registries are cleaned, then handleDisconnect runs.
Disconnect(c) ==
    /\ c \in open
    /\ open' = open \ {c}
    /\ rooms' = [rooms EXCEPT ![c] = {}]
    /\ LET registered == reverseSocketRegistry[c]
       IN  IF registered # NoId
           THEN /\ socketRegistry' = [socketRegistry EXCEPT ![registered] = NoConn]
                /\ reverseSocketRegistry' = [reverseSocketRegistry EXCEPT ![c] = NoId]
           ELSE UNCHANGED <<socketRegistry, reverseSocketRegistry>>
    /\ LET gameId == sockData[c].gameId
           playerId == sockData[c].playerId
       IN  IF gameId # NoId /\ playerId # NoId
           THEN /\ players' = IF HasGame(gameId) /\ InGame(games[gameId], playerId)
                              THEN [players EXCEPT
                                      ![playerId].lastActivity = now - DISCONNECT_MARK]
                              ELSE players
                /\ outbox' = RoomEmit(c, gameId, [type |-> "player-disconnected"])
                /\ queue' = queue
           ELSE IF playerId # NoId
           THEN /\ queue' = removeFromQueue(queue, playerId)
                /\ outbox' = <<>>
                /\ players' = players
           ELSE /\ outbox' = <<>>
                /\ UNCHANGED <<queue, players>>
    /\ UNCHANGED <<now, games, registry, sockData, pending, timers, accepted>>

\* A variant of the guard that does not look at the phase.
TimerGuardAnyPhase(gameId) == HasGame(gameId)

\* The guard of the timer callback before it calls handleTurnTimeout.
TimerGuard(gameId) == HasGame(gameId) /\ games[gameId].phase = "playing"

TurnChanged(game, playerId) ==
    IF findSocketByPlayerId(playerId) = NoConn THEN <<>>
    ELSE <<Msg(findSocketByPlayerId(playerId),
               [type |-> "turn-changed", currentPlayerId |-> game.currentPlayerId,
                timeRemaining |-> game.turnTimer])>>

\* The callback startTurnTimer scheduled, run once its delay has passed.
TimerFire(t) ==
    /\ t \in timers
    /\ now >= t.due
    /\ timers' = timers \ {t}
    /\ IF TimerGuard(t.game)
       THEN LET timedOutGame == handleTurnTimeout(games[t.game])
            IN  /\ games' = [games EXCEPT ![t.game] = timedOutGame]
                /\ outbox' = broadcastGameState(timedOutGame)
                             \o TurnChanged(timedOutGame, timedOutGame.players[1])
                             \o TurnChanged(timedOutGame, timedOutGame.players[2])
       ELSE /\ outbox' = <<>>
            /\ games' = games
    /\ UNCHANGED <<now, queue, players, registry, sockData, open, rooms, socketRegistry,
                   reverseSocketRegistry, pending, accepted>>

\* Time passes.
Tick ==
    /\ now + TickStep <= MaxNow
    /\ now' = now + TickStep
    /\ outbox' = <<>>
    /\ UNCHANGED <<queue, players, games, registry, sockData, open, rooms, socketRegistry,
                   reverseSocketRegistry, pending, timers, accepted>>

\* ------------------------------------------------------------ inputs
H(r, c, n) == getShipPositions(<<r, c>>, n, "horizontal")
V(r, c, n) == getShipPositions(<<r, c>>, n, "vertical")

\* The place-ship requests the clients send: a ship id and a position list.
PlaceInputs ==
    {<<"submarine-1", H(0, 0, 3)>>, <<"destroyer-1", H(0, 3, 2)>>,
     <<"destroyer-1", V(0, 2, 2)>>, <<"destroyer-1", <<>> >>}

\* The clients fire along one of these plans, cell after cell.
ShotPlans ==
    {<<<<1, 0>>, <<0, 0>>, <<0, 1>>, <<0, 2>>, <<0, 3>>, <<0, 4>>>>,
     <<<<0, 3>>, <<0, 4>>, <<0, 0>>, <<0, 1>>, <<0, 2>>, <<1, 0>>>>}

PlanPrefixes(plans) ==
    UNION {{{plan[i] : i \in 1 .. k} : k \in 0 .. Len(plan)} : plan \in plans}

PlanCells == UNION PlanPrefixes(ShotPlans)

\* The cells of the opponent's grid the player behind this connection has targeted.
Targeted(c) ==
    LET gameId == sockData[c].gameId
        playerId == sockData[c].playerId
    IN  IF gameId = NoId \/ playerId = NoId \/ ~HasGame(gameId) THEN {}
        ELSE IF Opponent(games[gameId], playerId) = NoId THEN {}
        ELSE {pos \in PlanCells :
                players[Opponent(games[gameId], playerId)].board.grid[pos].state
                    \in {"hit", "miss", "sunk"}}

\* The cells a client may fire at next: the next cell of a plan, a cell it has fired
\* at before, or a cell off the board.
ShotInputs(plans, c) ==
    {pos \in PlanCells : Targeted(c) \cup {pos} \in PlanPrefixes(plans)}
    \cup {<<0, BOARD_SIZE>>}

\* The connections that ask to join the queue, in the order they ask, and the
\* connections that send game requests.
JoinOrder == <<"s1", "s2", "s3">>
GameConns == {"s1", "s2"}

Join == Len(players) < Len(JoinOrder) /\ JoinQueue(JoinOrder[Len(players) + 1])

\* The game without connection churn: the players join, place, ready up and fire
\* while the clock runs and the turn timers fire.
Next ==
    \/ Join
    \/ \E gid \in GameIds : JoinResume(gid)
    \/ \E c \in GameConns, in \in PlaceInputs : handlePlaceShip(c, in[1], in[2])
    \/ \E c \in GameConns : handleReadyToPlay(c)
    \/ \E c \in GameConns : \E position \in ShotInputs(ShotPlans, c) : handleFireShot(c, position)
    \/ \E t \in timers : TimerFire(t)
    \/ Tick

Spec == Init /\ [][Next]_vars

\* The same game with connections that drop and a connection that reconnects; the
\* clients place each ship once and fire along one plan.
ConnPlaceInputs == {<<"submarine-1", H(0, 0, 3)>>, <<"destroyer-1", H(0, 3, 2)>>}
ConnShotPlans == {<<<<1, 0>>, <<0, 0>>, <<0, 1>>, <<0, 2>>, <<0, 3>>, <<0, 4>>>>}
ReconnectConns == {"s3"}
DisconnectConns == {"s2", "s3"}

NextConn ==
    \/ Join
    \/ \E gid \in GameIds : JoinResume(gid)
    \/ \E c \in Conns, in \in ConnPlaceInputs : handlePlaceShip(c, in[1], in[2])
    \/ \E c \in Conns : handleReadyToPlay(c)
    \/ \E c \in Conns : \E position \in ShotInputs(ConnShotPlans, c) :
            handleFireShot(c, position)
    \/ \E c \in ReconnectConns, gid \in GameIds : handleReconnectGame(c, gid)
    \/ \E c \in DisconnectConns : Disconnect(c)
    \/ \E t \in timers : TimerFire(t)
    \/ Tick

SpecConn == Init /\ [][NextConn]_vars

\* The game under a finer clock: once a match is playing the clock advances by a
\* turn's duration exactly or by more, and a timer callback may run at its due time
\* or any time later; the clients place each ship once and fire along a short plan.
TimeSteps == {TURN_TIMER, TickStep}
TimeShotPlans == {<<<<1, 0>>, <<0, 0>>, <<0, 3>>>>}

TickTime(step) ==
    /\ \E g \in DOMAIN games : games[g].phase = "playing"
    /\ now + step <= MaxLate
    /\ now' = now + step
    /\ outbox' = <<>>
    /\ UNCHANGED <<queue, players, games, registry, sockData, open, rooms, socketRegistry,
                   reverseSocketRegistry, pending, timers, accepted>>

NextTime ==
    \/ Join
    \/ \E gid \in GameIds : JoinResume(gid)
    \/ \E c \in GameConns, in \in ConnPlaceInputs : handlePlaceShip(c, in[1], in[2])
    \/ \E c \in GameConns : handleReadyToPlay(c)
    \/ \E c \in GameConns : \E position \in ShotInputs(TimeShotPlans, c) :
            handleFireShot(c, position)
    \/ \E t \in timers : TimerFire(t)
    \/ \E step \in TimeSteps : TickTime(step)

SpecTime == Init /\ [][NextTime]_vars

\* Placement with requests of every kind: good ones, a ship the fleet does not have,
\* cells off the board, too many cells, cells apart, one cell twice, a diagonal, and
\* cells of another ship.  The players also declare themselves ready, so that
\* requests arrive in phase playing too.
PlaceCalls ==
    {<<"submarine-1", H(0, 0, 3)>>, <<"destroyer-1", H(0, 3, 2)>>,
     <<"destroyer-1", V(0, 2, 2)>>, <<"destroyer-1", <<>> >>,
     <<"patrol-1", H(2, 0, 2)>>,
     <<"destroyer-1", H(0, BOARD_SIZE - 1, 2)>>,
     <<"destroyer-1", H(0, BOARD_SIZE - 1, 3)>>,
     <<"destroyer-1", H(0, 2, 3)>>,
     <<"destroyer-1", <<<<0, 2>>, <<0, 4>>>> >>,
     <<"destroyer-1", <<<<0, 3>>, <<0, 1>>, <<0, 2>>>> >>,
     <<"destroyer-1", <<<<4, 4>>, <<4, 4>>>> >>,
     <<"destroyer-1", <<<<4, 4>>, <<5, 5>>>> >>,
     <<"destroyer-1", <<<<0, 2>>, <<0, 1>>>> >>}

NextPlace ==
    \/ Join
    \/ \E gid \in GameIds : JoinResume(gid)
    \/ \E c \in GameConns, in \in PlaceCalls : handlePlaceShip(c, in[1], in[2])
    \/ \E c \in GameConns : handleReadyToPlay(c)

SpecPlace == Init /\ [][NextPlace]_vars

\* Shots of every kind with no clock: in placement, in playing and after the end, by
\* the player to move and by the other one, at fresh cells, at cells fired at before
\* (hit, miss and sunk) and off the board.
SinkPlans == {<<<<1, 0>>, <<0, 3>>, <<0, 4>>>>}

NextShot ==
    \/ Join
    \/ \E gid \in GameIds : JoinResume(gid)
    \/ \E c \in GameConns, in \in ConnPlaceInputs : handlePlaceShip(c, in[1], in[2])
    \/ \E c \in GameConns : handleReadyToPlay(c)
    \/ \E c \in GameConns : \E position \in ShotInputs(SinkPlans \cup ConnShotPlans, c) :
            handleFireShot(c, position)

SpecShot == Init /\ [][NextShot]_vars

\* The two services driven call by call, as their callers may: players are created,
\* put on the queue (again, too), taken off it (absent ones, too) and matched, the
\* matched players place a ship, and the queue is purged of inactive players.  The
\* services emit nothing.
ServiceFrame ==
    UNCHANGED <<now, sockData, open, rooms, socketRegistry, reverseSocketRegistry,
                pending, timers, accepted>>

\* A variant of attemptMatch that takes the two players who joined last.
attemptMatchNewest(q) ==
    IF Len(q) < 2 THEN [matched |-> FALSE, queue |-> q]
    ELSE [matched |-> TRUE, player1 |-> q[Len(q)], player2 |-> q[Len(q) - 1],
          queue |-> SubSeq(q, 1, Len(q) - 2)]

\* attemptMatch's two queue.shift() calls.
attemptMatch(q) ==
    IF Len(q) < 2 THEN [matched |-> FALSE, queue |-> q]
    ELSE [matched |-> TRUE, player1 |-> q[1], player2 |-> q[2],
          queue |-> SubSeq(q, 3, Len(q))]

cleanupInactivePlayers(q, P, timeoutMs) ==
    SelectSeq(q, LAMBDA id : now - P[id].lastActivity < timeoutMs)

CreatePlayer ==
    /\ Len(players) < QueuePlayers
    /\ players' = Append(players, createPlayer("s1", Len(players) + 1))
    /\ outbox' = <<>>
    /\ UNCHANGED <<queue, games, registry>>
    /\ ServiceFrame

AddToQueue(id) ==
    /\ id \in 1 .. Len(players)
    /\ queue' = addToQueue(queue, id)
    /\ outbox' = <<>>
    /\ UNCHANGED <<players, games, registry>>
    /\ ServiceFrame

RemoveFromQueue(id) ==
    /\ queue' = removeFromQueue(queue, id)
    /\ outbox' = <<>>
    /\ UNCHANGED <<players, games, registry>>
    /\ ServiceFrame

\* attemptMatch, and createGame on the game it returns.
AttemptMatch ==
    /\ Len(games) < MaxMatches
    /\ LET m == attemptMatch(queue)
           gid == Len(games) + 1
       IN  IF ~m.matched
           THEN /\ outbox' = <<>>
                /\ UNCHANGED <<queue, players, games, registry>>
           ELSE /\ queue' = m.queue
                /\ players' = [players EXCEPT ![m.player1] = FreshBoard(@),
                                              ![m.player2] = FreshBoard(@)]
                /\ games' = Append(games, NewGame(gid, m.player1, m.player2))
                /\ registry' = registry \cup {gid}
                /\ outbox' = <<>>
    /\ ServiceFrame

CleanupInactivePlayers ==
    /\ queue' = cleanupInactivePlayers(queue, players, INACTIVE_TIMEOUT)
    /\ outbox' = <<>>
    /\ UNCHANGED <<players, games, registry>>
    /\ ServiceFrame

PlaceShip(gameId, playerId, shipId, positions) ==
    /\ LET result == placeShip(gameId, playerId, shipId, positions)
       IN  /\ players' = result.players
           /\ outbox' = <<>>
    /\ UNCHANGED <<queue, games, registry>>
    /\ ServiceFrame

\* The ship the matched players place.
QueuePlaceInputs == {<<"submarine-1", H(0, 0, 3)>>}

NextQueue ==
    \/ CreatePlayer
    \/ \E id \in 1 .. QueuePlayers : AddToQueue(id)
    \/ \E id \in 1 .. QueuePlayers : RemoveFromQueue(id)
    \/ AttemptMatch
    \/ CleanupInactivePlayers
    \/ \E gameId \in DOMAIN games, playerId \in DOMAIN players, in \in QueuePlaceInputs :
            PlaceShip(gameId, playerId, in[1], in[2])
    \/ Tick

SpecQueue == Init /\ [][NextQueue]_vars

\* The match under the cleanup interval: the clients join, place, ready up and fire
\* in the first instant and are then heard of only when a connection drops or asks
\* to be reconnected, which refreshes its player's activity; the clock advances by a
\* cleanup interval or by the maximum age of a match, and the interval callback
\* purges the queue and the registry.  The turn timers stay pending.
\* A variant of cleanupInactiveGames that waits until every player is inactive.
cleanupGamesAllInactive(R, timeoutMs) ==
    {g \in R :
        ~ \/ \A k \in 1 .. 2 : now - players[games[g].players[k]].lastActivity > timeoutMs
          \/ now - games[g].createdAt > GAME_MAX_AGE}

\* cleanupInactiveGames: the ids the registry holds after the pass.
cleanupInactiveGames(R, timeoutMs) ==
    {g \in R :
        ~ \/ \E k \in 1 .. 2 : now - players[games[g].players[k]].lastActivity > timeoutMs
          \/ now - games[g].createdAt > GAME_MAX_AGE}

\* The callback of the cleanup interval.
CleanupInterval ==
    /\ queue' = cleanupInactivePlayers(queue, players, INACTIVE_TIMEOUT)
    /\ registry' = cleanupInactiveGames(registry, GAME_TIMEOUT)
    /\ outbox' = <<>>
    /\ UNCHANGED <<now, players, games, sockData, open, rooms, socketRegistry,
                   reverseSocketRegistry, pending, timers, accepted>>

GcSteps == {CLEANUP_INTERVAL, GAME_MAX_AGE}
GcShotPlans == {<<<<0, 0>>, <<0, 1>>, <<0, 2>>, <<0, 3>>, <<0, 4>>>>}
GcDisconnectConns == {"s2"}

TickGc(step) ==
    /\ step = CLEANUP_INTERVAL
           => (now - StartTime) % GAME_MAX_AGE < GcTicks * CLEANUP_INTERVAL
    /\ step = GAME_MAX_AGE => now - StartTime < GAME_MAX_AGE
    /\ now' = now + step
    /\ outbox' = <<>>
    /\ UNCHANGED <<queue, players, games, registry, sockData, open, rooms, socketRegistry,
                   reverseSocketRegistry, pending, timers, accepted>>

GcPlay ==
    \/ Join
    \/ \E gid \in GameIds : JoinResume(gid)
    \/ \E c \in GameConns, in \in ConnPlaceInputs : handlePlaceShip(c, in[1], in[2])
    \/ \E c \in GameConns : handleReadyToPlay(c)
    \/ \E c \in GameConns : \E position \in ShotInputs(GcShotPlans, c) :
            handleFireShot(c, position)

NextGc ==
    \/ now = StartTime /\ GcPlay
    \/ \E c \in GameConns, gid \in GameIds : handleReconnectGame(c, gid)
    \/ \E c \in GcDisconnectConns : Disconnect(c)
    \/ \E step \in GcSteps : TickGc(step)
    \/ CleanupInterval

SpecGc == Init /\ [][NextGc]_vars

\* handleLeaveQueue: the connection's current player is taken off the queue.
handleLeaveQueue(c) ==
    /\ c \in open
    /\ queue' = IF sockData[c].playerId # NoId
                THEN removeFromQueue(queue, sockData[c].playerId)
                ELSE queue
    /\ outbox' = <<>>
    /\ UNCHANGED <<now, players, games, registry, sockData, open, rooms, socketRegistry,
                   reverseSocketRegistry, pending, timers, accepted>>

\* The connections as clients may use them: each may ask to join the queue at any
\* time and more than once, leave the queue, drop, and ask to be reconnected, while
\* the clock runs.
NextIdentity ==
    \/ \E c \in GameConns : JoinQueue(c)
    \/ \E gid \in GameIds : JoinResume(gid)
    \/ \E c \in GameConns : handleLeaveQueue(c)
    \/ \E c \in Conns, gid \in GameIds : handleReconnectGame(c, gid)
    \/ \E c \in GameConns : Disconnect(c)
    \/ Tick

SpecIdentity == Init /\ [][NextIdentity]_vars

\* Clients that wait: they join one after the other at any time and never ask to
\* leave the queue, a connection may drop, the clock advances and the cleanup
\* interval runs.
NextWait ==
    \/ Join
    \/ \E gid \in GameIds : JoinResume(gid)
    \/ \E c \in GameConns : Disconnect(c)
    \/ \E step \in GcSteps : TickGc(step)
    \/ CleanupInterval

SpecWait == Init /\ [][NextWait]_vars

\* ------------------------------------------------------------ properties
\* The cells of this player's grid the other player's accepted shots were fired at.
TargetedCells(p) ==
    {a.position : a \in {b \in accepted : b.player # p /\ InGame(games[b.game], p)}}

CellsOf(ship) == {ship.positions[j] : j \in 1 .. Len(ship.positions)}

\* This step's handleFireShot accepted a shot of this player in this game.
AcceptedShotBy(g, playerId) ==
    \E i \in 1 .. Len(outbox') :
        /\ outbox'[i].msg.type = "shot-result"
        /\ outbox'[i].msg.shooter = playerId
        /\ InGame(games[g], playerId)

\* This step ran a timer callback that found the game's turn timed out.
TimeoutSwitch(g) ==
    \E t \in timers :
        /\ t.game = g
        /\ t \notin timers'
        /\ now >= t.due
        /\ isTurnTimedOut(games[g], now)

\* C1: in every game-state view sent to a player while the match is not finished, no
\* cell of the opponent's board has state ship.
C1_OpponentCellsHidden ==
    \A i \in 1 .. Len(outbox) :
        (/\ outbox[i].msg.type = "game-state"
         /\ Payload(outbox[i].msg).phase # "finished")
        => \A pos \in Pos :
              Payload(outbox[i].msg).opponent.board.grid[pos].state # "ship"

\* The places an untouched ship of the opponent could stand at instead.
AltPositions(ship) == {H(5, 5, ship.size), V(5, 5, ship.size)}

\* The players with ship i of player o standing at alt instead.
Relocated(P, o, i, alt) ==
    [P EXCEPT ![o] = placeShipOnBoard(removeShipFromBoard(P[o], i), i, alt)]

\* C2: the view built for a player is the same in two match states that differ only in
\* where an unsunk ship of the opponent with no hit segment stands.
C2_ViewIgnoresHiddenShips ==
    \A g \in DOMAIN games : \A k \in 1 .. 2 :
        LET p == games[g].players[k]
            o == Opponent(games[g], p)
        IN  o # NoId =>
            \A i \in 1 .. Len(players[o].board.ships) :
                LET ship == players[o].board.ships[i]
                    without == removeShipFromBoard(players[o], i).board.grid
                IN  (/\ ship.isPlaced
                     /\ ~ship.isSunk
                     /\ \A pos \in CellsOf(ship) : players[o].board.grid[pos].state = "ship")
                    => \A alt \in AltPositions(ship) :
                          canPlaceShip(without, ship, alt).isValid =>
                              GameStateView(games[g], Relocated(players, o, i, alt), p)
                                  = GameStateView(games[g], players, p)

\* Both players of the game are ready and have every ship of the fleet placed.
AllSet(game, P) ==
    \A k \in 1 .. 2 :
        /\ P[game.players[k]].isReady
        /\ areAllShipsPlaced(P[game.players[k]].board.ships)

\* C3: a step takes a match from placement to playing if and only if, at that
\* instant, both players are ready and each has every ship of the fleet placed.
C3_PlayingIffReadyAndPlaced ==
    [][\A g \in DOMAIN games :
          games[g].phase = "placement" =>
              ((games'[g].phase = "playing") <=> AllSet(games[g], players'))]_vars

\* C4: after an accepted shot that does not win, the turn is the other player's, and
\* the turn changes hands only by an accepted shot of the player whose turn it is or
\* by a turn-timeout switch.
C4_TurnsAlternate ==
    [][\A g \in DOMAIN games :
          /\ \A i \in 1 .. Len(outbox') :
                (/\ outbox'[i].msg.type = "shot-result"
                 /\ ~outbox'[i].msg.gameOver
                 /\ InGame(games[g], outbox'[i].msg.shooter))
                => /\ games'[g].currentPlayerId # outbox'[i].msg.shooter
                   /\ InGame(games[g], games'[g].currentPlayerId)
          /\ games'[g].currentPlayerId # games[g].currentPlayerId
                => \/ AcceptedShotBy(g, games[g].currentPlayerId)
                   \/ TimeoutSwitch(g)]_vars

\* A shot that did not win was accepted and the turn is the other player's.
C4_TurnPassed ==
    \E g \in DOMAIN games : \E i \in 1 .. Len(outbox) :
        /\ outbox[i].msg.type = "shot-result"
        /\ ~outbox[i].msg.gameOver
        /\ InGame(games[g], outbox[i].msg.shooter)
        /\ games[g].currentPlayerId # outbox[i].msg.shooter
        /\ games[g].phase = "playing"

\* The position is the last unhit segment of the last unsunk ship of the opponent.
LastSegmentOfLastShip(g, playerId, position) ==
    LET o == Opponent(games[g], playerId)
        board == players[o].board
        h == FindHitShip(board.ships, position)
    IN  /\ o # NoId
        /\ isValidPosition(position)
        /\ h # 0
        /\ board.grid[position].state = "ship"
        /\ \A pos \in CellsOf(board.ships[h]) \ {position} : board.grid[pos].state = "hit"
        /\ \A i \in 1 .. Len(board.ships) : i # h => board.ships[i].isSunk

\* C5: an accepted shot at the last unhit segment of the opponent's last unsunk ship
\* reports sunk, leaves the opponent no ship, finishes the match with the shooter as
\* winner, and changes neither currentPlayerId nor turnStartTime.
C5_WinningShot ==
    [][\A g \in DOMAIN games : \A i \in 1 .. Len(outbox') :
          (/\ outbox'[i].msg.type = "shot-result"
           /\ InGame(games[g], outbox'[i].msg.shooter)
           /\ LastSegmentOfLastShip(g, outbox'[i].msg.shooter, outbox'[i].msg.position))
          => /\ outbox'[i].msg.result = "sunk"
             /\ players'[Opponent(games[g], outbox'[i].msg.shooter)].board.shipsRemaining = 0
             /\ games'[g].phase = "finished"
             /\ games'[g].winner = outbox'[i].msg.shooter
             /\ games'[g].currentPlayerId = games[g].currentPlayerId
             /\ games'[g].turnStartTime = games[g].turnStartTime]_vars

\* A shot has just sunk the last ship of a fleet and won the match.
C5_MatchWon ==
    \E g \in DOMAIN games : \E i \in 1 .. Len(outbox) :
        /\ outbox[i].msg.type = "shot-result"
        /\ outbox[i].msg.result = "sunk"
        /\ outbox[i].msg.gameOver
        /\ games[g].phase = "finished"
        /\ games[g].winner = outbox[i].msg.shooter
        /\ \A k \in 1 .. Len(FleetTypes) :
              players[Opponent(games[g], games[g].winner)].board.ships[k].isSunk

\* C6: once a player's shot at a position has been accepted, fireShot by that player
\* at that position is rejected as already targeted whenever it is that player's turn
\* in phase playing.
C6_RefireRejected ==
    \A a \in accepted :
        (/\ HasGame(a.game)
         /\ games[a.game].phase = "playing"
         /\ games[a.game].currentPlayerId = a.player)
        => /\ ~fireShot(a.game, a.player, a.position).success
           /\ fireShot(a.game, a.player, a.position).error
                  = "Position has already been targeted"

\* A player whose turn it is has just been refused a shot at a targeted cell, with a
\* hit, a miss and a sunk cell among the cells that player has fired at.
C6_RefireSeen ==
    /\ \E c \in Conns : outbox = <<Msg(c, ErrorMsg("Position has already been targeted"))>>
    /\ \E g \in DOMAIN games :
          /\ games[g].phase = "playing"
          /\ \A st \in {"hit", "miss", "sunk"} :
                \E a \in accepted :
                    /\ a.game = g
                    /\ a.player = games[g].currentPlayerId
                    /\ players[Opponent(games[g], a.player)].board.grid[a.position].state = st

\* The ships of this player that stand on the board with every cell fired at.
ShipsFullyHit(p) ==
    {i \in 1 .. Len(players[p].board.ships) :
        /\ players[p].board.ships[i].isPlaced
        /\ CellsOf(players[p].board.ships[i]) \subseteq TargetedCells(p)}

ShipsRemainingCounted ==
    \A p \in DOMAIN players :
        players[p].board.shipsRemaining = FLEET_SIZE - Cardinality(ShipsFullyHit(p))

\* C7: each player's shipsRemaining is the size of the fleet minus the number of that
\* player's ships whose every cell has been hit, and it changes only by one, at an
\* accepted shot of the other player that reports sunk.
C7_ShipsRemaining ==
    [][/\ ShipsRemainingCounted'
       /\ \A p \in DOMAIN players :
             players'[p].board.shipsRemaining # players[p].board.shipsRemaining
             => /\ players'[p].board.shipsRemaining = players[p].board.shipsRemaining - 1
                /\ \E i \in 1 .. Len(outbox') :
                      /\ outbox'[i].msg.type = "shot-result"
                      /\ outbox'[i].msg.result = "sunk"
                      /\ outbox'[i].msg.shooter # p]_vars

\* A player has lost one ship and has another with a hit segment still afloat.
C7_OneShipDown ==
    \E p \in DOMAIN players :
        /\ players[p].board.shipsRemaining = FLEET_SIZE - 1
        /\ Cardinality(ShipsFullyHit(p)) = 1
        /\ \E pos \in Pos : players[p].board.grid[pos].state = "hit"

\* C8: a cell of a player's grid has state ship if and only if it is in the positions
\* of a placed, unsunk ship of that player and has not been targeted; no cell is in the
\* positions of two ships; on an untargeted board the ship cells are the union of the
\* placed ships' positions.
C8_ShipCells ==
    \A p \in DOMAIN players :
        LET board == players[p].board
            fleet == 1 .. Len(board.ships)
        IN  /\ \A pos \in Pos :
                  board.grid[pos].state = "ship"
                  <=> /\ \E i \in fleet :
                            /\ board.ships[i].isPlaced
                            /\ ~board.ships[i].isSunk
                            /\ pos \in CellsOf(board.ships[i])
                      /\ pos \notin TargetedCells(p)
            /\ \A i, j \in fleet :
                  i # j => CellsOf(board.ships[i]) \cap CellsOf(board.ships[j]) = {}
            /\ TargetedCells(p) = {}
                  => {pos \in Pos : board.grid[pos].state = "ship"}
                         = UNION {CellsOf(board.ships[i]) :
                                     i \in {k \in fleet : board.ships[k].isPlaced}}

\* A fleet with one ship sunk, one hit and still afloat with a ship cell left, in a
\* match whose other player was ready and has taken a ship off the board.
C8_MixedBoard ==
    \E p \in DOMAIN players :
        /\ \A st \in {"sunk", "hit", "ship", "miss"} :
              \E pos \in Pos : players[p].board.grid[pos].state = st
        /\ \E q \in DOMAIN players :
              /\ q # p
              /\ players[q].isReady
              /\ ~areAllShipsPlaced(players[q].board.ships)

\* C9: once a match is finished, no step changes either board, currentPlayerId,
\* turnStartTime, phase or winner.
C9_FinishedFrozen ==
    [][\A g \in DOMAIN games :
          games[g].phase = "finished" =>
              /\ games'[g].phase = "finished"
              /\ games'[g].winner = games[g].winner
              /\ games'[g].currentPlayerId = games[g].currentPlayerId
              /\ games'[g].turnStartTime = games[g].turnStartTime
              /\ \A k \in 1 .. 2 :
                    players'[games[g].players[k]].board
                        = players[games[g].players[k]].board]_vars

\* In a finished match whose turn has timed out, with every timer run and a player
\* whose connection dropped, a shot has just been refused.
C9_FinishedAndUsed ==
    \E g \in DOMAIN games :
        /\ games[g].phase = "finished"
        /\ isTurnTimedOut(games[g], now)
        /\ timers = {}
        /\ open # Conns
        /\ \E c \in Conns :
              outbox = <<Msg(c, ErrorMsg("Cannot fire shots during placement phase"))>>

\* C10: a match's phase only moves forward: from placement to playing and from playing
\* to finished.
C10_PhaseForward ==
    [][\A g \in DOMAIN games :
          \/ games'[g].phase = games[g].phase
          \/ games[g].phase = "placement" /\ games'[g].phase = "playing"
          \/ games[g].phase = "playing" /\ games'[g].phase = "finished"]_vars

\* A finished match has just answered a ready-to-play with its state.
C10_ReadyAfterFinish ==
    \E g \in DOMAIN games :
        /\ games[g].phase = "finished"
        /\ Len(outbox) > 0
        /\ \A i \in 1 .. Len(outbox) : outbox[i].msg.type = "game-state"

\* This step ran the callback of timer t.
TimerRan(t) == t \in timers /\ t \notin timers'

\* C12: a timer set for a turn whose turnStartTime is no longer the match's
\* turnStartTime never changes currentPlayerId or turnStartTime when its callback
\* runs, however late that is.
C12_StaleTimerInert ==
    [][\A t \in timers :
          (TimerRan(t) /\ HasGame(t.game) /\ t.armed # games[t.game].turnStartTime)
              => /\ games'[t.game].currentPlayerId = games[t.game].currentPlayerId
                 /\ games'[t.game].turnStartTime = games[t.game].turnStartTime]_vars

\* C11: in phase playing, when the timer set for the current turn runs, turnDuration
\* or more after turnStartTime with no shot accepted in between, it forces the turn
\* switch (currentPlayerId advances once, turnStartTime is reset to now); and a timer
\* forces a switch only for a turn that has itself lasted turnDuration, so a shot
\* accepted after a forced switch is not followed by a second switch for the same expiry.
C11_TimerForcesOneSwitch ==
    [][\A t \in timers :
          (TimerRan(t) /\ HasGame(t.game) /\ games[t.game].phase = "playing")
              => LET game == games[t.game]
                     after == games'[t.game]
                 IN  /\ (t.armed = game.turnStartTime
                            /\ now - game.turnStartTime >= game.turnTimer)
                         => /\ after.currentPlayerId = getNextPlayer(game)
                            /\ after.turnStartTime = now
                     /\ after.currentPlayerId # game.currentPlayerId
                         => /\ now - game.turnStartTime >= game.turnTimer
                            /\ after.turnStartTime = now]_vars

\* The same with the callback running later than turnDuration after turnStartTime.
TimerForcesWhenLate ==
    [][\A t \in timers :
          (TimerRan(t) /\ HasGame(t.game) /\ games[t.game].phase = "playing"
             /\ t.armed = games[t.game].turnStartTime
             /\ now - games[t.game].turnStartTime > games[t.game].turnTimer)
              => /\ games'[t.game].currentPlayerId = getNextPlayer(games[t.game])
                 /\ games'[t.game].turnStartTime = now]_vars

\* A playing match whose turn has lasted turnDuration with no timer left to run.
TurnExpiredNoTimer ==
    \E g \in DOMAIN games :
        /\ games[g].phase = "playing"
        /\ now - games[g].turnStartTime >= games[g].turnTimer
        /\ \A t \in timers : t.game # g
        /\ \A a \in accepted : a.game # g

\* The players on the queue, and the place of one of them in it.
Queued(q) == {q[i] : i \in 1 .. Len(q)}
PlaceIn(q, id) == CHOOSE i \in 1 .. Len(q) : q[i] = id

FirstTurnToFirstQueued ==
    [][\A g \in DOMAIN games :
          (games[g].phase = "placement" /\ games'[g].phase = "playing")
              => games'[g].currentPlayerId = games'[g].players[1]]_vars

\* C14: no player is on the queue twice, whatever calls have been made (enqueue,
\* dequeue, match, purge), and enqueueing a player who is on the queue leaves the
\* queue as it is.
C14_QueueUnique ==
    /\ \A i \in 1 .. Len(queue), j \in 1 .. Len(queue) : queue[i] = queue[j] => i = j
    /\ \A id \in Queued(queue) : addToQueue(queue, id) = queue

\* A player of a match is on the queue again, behind another player.
C14_RequeuedAfterMatch ==
    /\ Len(games) >= 1
    /\ Len(queue) >= 2
    /\ games[1].players[1] \in Queued(queue)
    /\ queue[1] # games[1].players[1]

\* C15: removing an id that is not on the queue leaves the queue as it is, and
\* attemptMatch with fewer than two players queued returns no match and takes nobody
\* off the queue.
C15_AbsentAndShortAreNoOps ==
    /\ \A id \in 0 .. QueuePlayers :
           id \notin Queued(queue) => removeFromQueue(queue, id) = queue
    /\ Len(queue) < 2
           => /\ ~attemptMatch(queue).matched
              /\ attemptMatch(queue).queue = queue

\* One player waits alone while the others, created, are not on the queue.
C15_OneQueuedOthersAbsent ==
    /\ Len(queue) = 1
    /\ Len(players) = QueuePlayers
    /\ Len(games) = 0

\* The board of a player: every cell empty, one unplaced, unsunk ship of every type
\* of the fleet, and all ships remaining.
StartingBoard(board) ==
    /\ \A pos \in Pos : board.grid[pos].state = "empty"
    /\ Len(board.ships) = Len(FleetTypes)
    /\ \A i \in 1 .. Len(FleetTypes) :
           /\ board.ships[i].type = FleetTypes[i]
           /\ ~board.ships[i].isPlaced
           /\ ~board.ships[i].isSunk
           /\ board.ships[i].positions = <<>>
    /\ board.shipsRemaining = Len(FleetTypes)

\* C16: a step that makes a match leaves the match in phase placement and each of its
\* two players with an all-empty grid, one unplaced, unsunk ship of every type and
\* all ships remaining, whatever their boards were before.
C16_MatchStartsFresh ==
    [][Len(games') > Len(games)
          => LET game == games'[Len(games')]
             IN  /\ game.phase = "placement"
                 /\ StartingBoard(players'[game.players[1]].board)
                 /\ StartingBoard(players'[game.players[2]].board)]_vars

\* A player of the first match is in the second with a starting board, while the
\* opponent of the first match still has the ship placed in it.
C16_RematchedAfterPlacing ==
    /\ Len(games) = 2
    /\ \E k \in 1 .. 2 :
           /\ InGame(games[2], games[1].players[k])
           /\ StartingBoard(players[games[1].players[k]].board)
           /\ ~InGame(games[2], games[1].players[3 - k])
           /\ players[games[1].players[3 - k]].board.ships[1].isPlaced

\* The reasons for which a placeShip call is to fail, read off the state before it.
WrongPhaseToPlace(gameId) == games[gameId].phase # "placement"
UnknownPlayer(gameId, playerId) == ~InGame(games[gameId], playerId)
UnknownShip(playerId, shipId) ==
    \A i \in 1 .. Len(players[playerId].board.ships) :
        players[playerId].board.ships[i].id # shipId
OutsideBoard(positions) ==
    \E i \in 1 .. Len(positions) :
        positions[i][1] \notin 0 .. BOARD_SIZE - 1 \/ positions[i][2] \notin 0 .. BOARD_SIZE - 1
WrongLength(playerId, shipId, positions) ==
    \E i \in 1 .. Len(players[playerId].board.ships) :
        /\ players[playerId].board.ships[i].id = shipId
        /\ players[playerId].board.ships[i].size # Len(positions)
\* Distinct cells of one row or one column, next to each other once sorted.
InLine(positions) ==
    LET cells == {positions[i] : i \in 1 .. Len(positions)}
        rows == {cell[1] : cell \in cells}
        cols == {cell[2] : cell \in cells}
    IN  /\ Cardinality(cells) = Len(positions)
        /\ \/ /\ Cardinality(rows) = 1
              /\ \A a \in cols, b \in cols : a - b < Len(positions)
           \/ /\ Cardinality(cols) = 1
              /\ \A a \in rows, b \in rows : a - b < Len(positions)
\* A cell of the list is among the positions of another ship of the player.
OverOtherShip(playerId, shipId, positions) ==
    \E i \in 1 .. Len(positions), j \in 1 .. Len(players[playerId].board.ships) :
        /\ players[playerId].board.ships[j].id # shipId
        /\ \E k \in 1 .. Len(players[playerId].board.ships[j].positions) :
               players[playerId].board.ships[j].positions[k] = positions[i]

PlaceFailure(gameId, playerId, shipId, positions) ==
    \/ WrongPhaseToPlace(gameId)
    \/ UnknownPlayer(gameId, playerId)
    \/ UnknownShip(playerId, shipId)
    \/ /\ positions # <<>>
       /\ \/ OutsideBoard(positions)
          \/ WrongLength(playerId, shipId, positions)
          \/ ~InLine(positions)
          \/ OverOtherShip(playerId, shipId, positions)

\* This step answered a place-ship request with a refusal.
PlaceRejected ==
    \E i \in 1 .. Len(outbox') :
        outbox'[i].msg.type = "ship-placed" /\ ~outbox'[i].msg.isValid

\* C17: a placeShip call that fails changes nothing: grids, ships, ready flags, phase
\* and all the rest of the match are as before the call; each of the listed reasons
\* (wrong phase, unknown player, unknown ship, outside the board, wrong length, not
\* contiguous, overlap) makes the call fail; and a list of cells that is in order but
\* for a cell of another ship of the player is answered with the overlap error.
C17_FailedPlaceChangesNothing ==
    [][/\ \A gameId \in registry, playerId \in 0 .. Len(players) + 1, in \in PlaceCalls :
              LET result == placeShip(gameId, playerId, in[1], in[2])
              IN  /\ ~result.success => result.players = players
                  /\ PlaceFailure(gameId, playerId, in[1], in[2]) => ~result.success
                  /\ (/\ ~WrongPhaseToPlace(gameId)
                      /\ ~UnknownPlayer(gameId, playerId)
                      /\ ~UnknownShip(playerId, in[1])
                      /\ ~OutsideBoard(in[2])
                      /\ ~WrongLength(playerId, in[1], in[2])
                      /\ InLine(in[2])
                      /\ OverOtherShip(playerId, in[1], in[2]))
                         => /\ ~result.success
                            /\ result.error = "Ship positions overlap with existing ships"
       /\ PlaceRejected
              => UNCHANGED <<now, queue, players, games, registry, sockData, open, rooms,
                             socketRegistry, reverseSocketRegistry, pending, timers,
                             accepted>>]_vars

\* A player whose submarine is placed has been refused a destroyer over one of its
\* cells, and the submarine is where it was.
C17_OverlapRefused ==
    \E i \in 1 .. Len(outbox) :
        /\ outbox[i].msg.type = "ship-placed"
        /\ ~outbox[i].msg.isValid
        /\ outbox[i].msg.error = "Ship positions overlap with existing ships"
        /\ \E p \in DOMAIN players :
               /\ socketRegistry[p] = outbox[i].to
               /\ players[p].board.ships[1].isPlaced
               /\ ~players[p].board.ships[2].isPlaced

\* The position lists of the requests, the empty one apart.
PlacementLists == {in[2] : in \in PlaceCalls} \ {<<>>}

\* The verdict on a placement: the first check that fails, in the order bounds,
\* length, line, free cells.
FirstFailingCheck(board, ship, positions) ==
    IF OutsideBoard(positions) THEN "outside-board"
    ELSE IF Len(positions) # ship.size THEN "wrong-length"
    ELSE IF ~InLine(positions) THEN "not-contiguous"
    ELSE IF \E i \in 1 .. Len(positions) : board[positions[i]].state # "empty"
    THEN "overlaps-existing"
    ELSE "ok"

\* The verdict canPlaceShip's result stands for.
Verdict(validation) ==
    IF validation.isValid THEN "ok"
    ELSE IF validation.error = "Ship placement outside board boundaries"
    THEN "outside-board"
    ELSE IF validation.error = "Ship requires size positions" THEN "wrong-length"
    ELSE IF validation.error = "Ship positions must be contiguous and in a straight line"
    THEN "not-contiguous"
    ELSE IF validation.error = "Ship positions overlap with existing ships"
    THEN "overlaps-existing"
    ELSE "other"

\* C19: for every board, ship and non-empty position list canPlaceShip reports the
\* first failing check in the order bounds, length, contiguity, overlap: outside-board
\* if a position is off the board; else wrong-length if the count is not the ship's
\* size; else not-contiguous unless the positions are distinct, in one row or column
\* and consecutive once sorted; else overlaps-existing if a target cell is not
\* empty; else ok.
C19_FirstFailingCheck ==
    \A p \in DOMAIN players, positions \in PlacementLists :
        \A i \in 1 .. Len(players[p].board.ships) :
            Verdict(canPlaceShip(players[p].board.grid, players[p].board.ships[i], positions))
                = FirstFailingCheck(players[p].board.grid, players[p].board.ships[i],
                                    positions)

\* On a board with the submarine placed the destroyer's lists meet every verdict: a
\* list off the board and too long, one too long, one apart and over the submarine,
\* one in reverse order over the submarine, and a free one.
C19_EveryVerdictMet ==
    \E p \in DOMAIN players :
        LET board == players[p].board.grid
            destroyer == players[p].board.ships[2]
        IN  /\ players[p].board.ships[1].isPlaced
            /\ Verdict(canPlaceShip(board, destroyer, H(0, BOARD_SIZE - 1, 3))) = "outside-board"
            /\ Verdict(canPlaceShip(board, destroyer, H(0, 2, 3))) = "wrong-length"
            /\ Verdict(canPlaceShip(board, destroyer, <<<<0, 2>>, <<0, 4>>>>)) = "not-contiguous"
            /\ Verdict(canPlaceShip(board, destroyer, <<<<0, 2>>, <<0, 1>>>>))
                   = "overlaps-existing"
            /\ Verdict(canPlaceShip(board, destroyer, H(0, 3, 2))) = "ok"

\* The positions fired at: the cells of the plans and a cell off the board.
ShotCells == PlanCells \cup {<<0, BOARD_SIZE>>}

\* The answer a shot is to get: the first check that fails, in the order phase, turn,
\* bounds, target cell.
FirstShotError(game, playerId, position) ==
    IF game.phase # "playing" THEN "WrongPhase"
    ELSE IF playerId # game.currentPlayerId THEN "NotYourTurn"
    ELSE IF position \notin Pos THEN "OutOfBounds"
    ELSE IF \E p \in {game.players[1], game.players[2]} \ {playerId} :
                players[p].board.grid[position].state \in {"hit", "miss", "sunk"}
    THEN "AlreadyTargeted"
    ELSE "accepted"

\* The answer fireShot's result stands for.
ShotAnswer(result) ==
    IF result.success THEN "accepted"
    ELSE IF result.error = "Cannot fire shots during placement phase" THEN "WrongPhase"
    ELSE IF result.error = "It is not your turn" THEN "NotYourTurn"
    ELSE IF result.error = "Shot position is outside board boundaries" THEN "OutOfBounds"
    ELSE IF result.error = "Position has already been targeted" THEN "AlreadyTargeted"
    ELSE "other"

\* This step answered a fire-shot request with one of the four errors.
ShotRejected ==
    \E i \in 1 .. Len(outbox') :
        /\ outbox'[i].msg.type = "error"
        /\ outbox'[i].msg.error \in
               {"Cannot fire shots during placement phase", "It is not your turn",
                "Shot position is outside board boundaries",
                "Position has already been targeted"}

\* C18: fireShot answers with the first failing check in the order phase (WrongPhase),
\* turn (NotYourTurn), bounds (OutOfBounds), target cell already hit, miss or sunk
\* (AlreadyTargeted), and a rejected shot leaves both boards, shipsRemaining,
\* currentPlayerId, turnStartTime, phase and winner, and all the rest, as they were.
C18_ShotChecksInOrder ==
    [][/\ \A gameId \in registry, playerId \in 0 .. Len(players) + 1, position \in ShotCells :
              ShotAnswer(fireShot(gameId, playerId, position))
                  = FirstShotError(games[gameId], playerId, position)
       /\ ShotRejected
              => UNCHANGED <<now, queue, players, games, registry, sockData, open, rooms,
                             socketRegistry, reverseSocketRegistry, pending, timers,
                             accepted>>]_vars

\* The player to move has been told that the cell was targeted before, on a board
\* that shows a sunk ship and a miss.
C18_RefusedOnUsedCell ==
    /\ \E i \in 1 .. Len(outbox) :
           /\ outbox[i].msg.type = "error"
           /\ outbox[i].msg.error = "Position has already been targeted"
    /\ \E p \in DOMAIN players :
           /\ players[p].board.grid[<<0, 4>>].state = "sunk"
           /\ players[p].board.grid[<<1, 0>>].state = "miss"

\* A message that reports a rejected action: an error, or a refused placement.
IsRejection(m) ==
    \/ m.type = "error"
    \/ m.type = "ship-placed" /\ ~m.isValid

\* This step is a handler run for a request of connection c.
RequestOf(c) ==
    \/ \E in \in ConnPlaceInputs : handlePlaceShip(c, in[1], in[2])
    \/ handleReadyToPlay(c)
    \/ \E position \in ShotInputs(ConnShotPlans, c) : handleFireShot(c, position)
    \/ \E gid \in GameIds : handleReconnectGame(c, gid)

\* C20: an error produced by a rejected action (place-ship, ready-to-play, fire-shot,
\* reconnect-game) goes to the connection that sent the action and to no other, and
\* the step emits nothing else: no message and no game state reaches the opponent.
C20_ErrorsToSenderOnly ==
    [][\A i \in 1 .. Len(outbox') :
          IsRejection(outbox'[i].msg)
              => /\ Len(outbox') = 1
                 /\ RequestOf(outbox'[1].to)]_vars

\* A shot is refused while both players are connected and in the room of the game.
C20_RefusedWithOpponentInRoom ==
    /\ Len(outbox) = 1
    /\ outbox[1].msg.type = "error"
    /\ outbox[1].msg.error = "It is not your turn"
    /\ \E c \in open \ {outbox[1].to} : rooms[c] \cap rooms[outbox[1].to] # {}

\* C27: isTurnTimedOut of a match is true if and only if the match is in phase
\* playing and now - turnStartTime is strictly greater than turnDuration; so it is
\* false in placement, false in finished, and false when exactly turnDuration has
\* elapsed.
C27_TimedOutIffPlayingAndLate ==
    \A g \in DOMAIN games :
        isTurnTimedOut(games[g], now)
            <=> /\ games[g].phase = "playing"
                /\ now - games[g].turnStartTime > games[g].turnTimer

\* This step ran a timer callback that passed the turn of game g.
ForcedSwitch(g) ==
    /\ \E t \in timers : t.game = g /\ TimerRan(t)
    /\ games'[g].currentPlayerId # games[g].currentPlayerId

\* C26: a timer callback that forces a turn switch sets a timer for the new turn, so
\* that the turn is passed again after every further turnDuration in which nobody
\* fires and no player holds the turn forever.
C26_ForcedSwitchRearms ==
    [][\A g \in DOMAIN games :
          ForcedSwitch(g)
              => \E t \in timers' :
                    /\ t.game = g
                    /\ t.armed = games'[g].turnStartTime
                    /\ t.due = now + games'[g].turnTimer]_vars

\* A playing match in which the turn was passed by a timer, the new turn has lasted
\* longer than turnDuration with no shot, and no timer is left to pass it on.
TurnHeldForever ==
    \E g \in DOMAIN games :
        /\ games[g].phase = "playing"
        /\ games[g].currentPlayerId = games[g].players[2]
        /\ now - games[g].turnStartTime > games[g].turnTimer
        /\ \A t \in timers : t.game # g
        /\ \A a \in accepted : a.game # g

\* C28: a turn timeout only passes the turn: a step that runs a timer callback
\* changes at most currentPlayerId and turnStartTime of the match and leaves its
\* phase and winner, both grids, all ships and both shipsRemaining counters as they
\* were; no match becomes finished by it.
C28_TimeoutOnlyPassesTurn ==
    [][\A t \in timers :
          (TimerRan(t) /\ t.game \in DOMAIN games)
              => /\ players' = players
                 /\ games' = [games EXCEPT
                                ![t.game].currentPlayerId = games'[t.game].currentPlayerId,
                                ![t.game].turnStartTime = games'[t.game].turnStartTime]
                 /\ games'[t.game].phase = games[t.game].phase
                 /\ games'[t.game].winner = games[t.game].winner]_vars

\* After one accepted shot, by the first player, the turn is with the first player
\* again: a timeout has passed it back, over boards that carry the shot.
C28_PassedBackByTimeout ==
    \E g \in DOMAIN games :
        /\ games[g].phase = "playing"
        /\ games[g].currentPlayerId = games[g].players[1]
        /\ \E a \in accepted : accepted = {a} /\ a.game = g /\ a.player = games[g].players[1]
        /\ now - games[g].turnStartTime < games[g].turnTimer

\* The timers pending for game g.
PendingTimers(g) == {t \in timers : t.game = g}

\* C29: the timer of a turn that an accepted shot has ended is cancelled: a match in
\* phase playing has at most one pending turn timer and a finished match has none,
\* however many ready-to-play and fire-shot events there were.
C29_AtMostOneTimer ==
    \A g \in DOMAIN games :
        /\ games[g].phase = "playing" => Cardinality(PendingTimers(g)) <= 1
        /\ games[g].phase = "finished" => PendingTimers(g) = {}

\* C30: a placed ship is moved by one placeShip call: for every position list that
\* is on the board, of the ship's length, in line and free of the cells of the
\* player's other ships (lists that share cells with the ship's own footprint
\* included) the call succeeds, the cells of the old footprint that are not in the
\* new one are empty and carry no ship id, and exactly the new cells are owned by the
\* ship and in state ship.
C30_MoveInOneCall ==
    \A gameId \in registry : \A k \in 1 .. 2 : \A positions \in PlacementLists :
        LET playerId == games[gameId].players[k]
            ships == players[playerId].board.ships
        IN  \A i \in 1 .. Len(ships) :
                (/\ games[gameId].phase = "placement"
                 /\ ships[i].isPlaced
                 /\ ~OutsideBoard(positions)
                 /\ Len(positions) = ships[i].size
                 /\ InLine(positions)
                 /\ ~OverOtherShip(playerId, ships[i].id, positions))
                    => LET result == placeShip(gameId, playerId, ships[i].id, positions)
                           grid == result.players[playerId].board.grid
                           new == {positions[n] : n \in 1 .. Len(positions)}
                           old == {ships[i].positions[n] : n \in 1 .. Len(ships[i].positions)}
                       IN  /\ result.success
                           /\ \A pos \in old \ new :
                                  grid[pos].state = "empty" /\ grid[pos].shipId = NoShip
                           /\ \A pos \in Pos :
                                  grid[pos].shipId = ships[i].id
                                      <=> (pos \in new /\ grid[pos].state = "ship")
                           /\ \A pos \in new : grid[pos].shipId = ships[i].id

\* The same for lists that share no cell with the ship's own footprint.
MoveToFreeCells ==
    \A gameId \in registry : \A k \in 1 .. 2 : \A positions \in PlacementLists :
        LET playerId == games[gameId].players[k]
            ships == players[playerId].board.ships
        IN  \A i \in 1 .. Len(ships) :
                (/\ games[gameId].phase = "placement"
                 /\ ships[i].isPlaced
                 /\ ~OutsideBoard(positions)
                 /\ Len(positions) = ships[i].size
                 /\ InLine(positions)
                 /\ ~OverOtherShip(playerId, ships[i].id, positions)
                 /\ \A n \in 1 .. Len(positions), m \in 1 .. Len(ships[i].positions) :
                        positions[n] # ships[i].positions[m])
                    => LET result == placeShip(gameId, playerId, ships[i].id, positions)
                           grid == result.players[playerId].board.grid
                           new == {positions[n] : n \in 1 .. Len(positions)}
                       IN  /\ result.success
                           /\ \A pos \in Pos :
                                  grid[pos].shipId = ships[i].id
                                      <=> (pos \in new /\ grid[pos].state = "ship")

\* The registered match that has this player (NoId: none).
MatchOf(playerId) ==
    IF \E g \in registry : InGame(games[g], playerId)
    THEN CHOOSE g \in registry : InGame(games[g], playerId)
    ELSE NoId

\* What the disconnect of connection c, which speaks for playerId in match gameId, is
\* to do: the match stays registered with its phase, boards and turn state, the
\* player is marked inactive, nobody else changes, and every open connection of the
\* opponent is told.
DisconnectKeepsMatch(c, playerId, gameId) ==
    /\ registry' = registry
    /\ games' = games
    /\ queue' = queue
    /\ players' = [players EXCEPT ![playerId].lastActivity = now - DISCONNECT_MARK]
    /\ \A o \in open' :
           sockData[o].playerId = Opponent(games[gameId], playerId)
               => \E i \in 1 .. Len(outbox') :
                      outbox'[i] = Msg(o, [type |-> "player-disconnected"])

\* C21: when the connection of a player who is in a match closes, the player is
\* marked inactive and the opponent is notified, and neither the player nor the match
\* is removed: the match keeps its phase, boards and turn state; when the connection
\* of a player who is only queued closes, the player leaves the queue.
C21_DisconnectMarksAndNotifies ==
    [][\A c \in open \ open' :
          LET playerId == sockData[c].playerId
          IN  playerId # NoId =>
                  IF MatchOf(playerId) # NoId
                  THEN DisconnectKeepsMatch(c, playerId, MatchOf(playerId))
                  ELSE \A i \in 1 .. Len(queue') : queue'[i] # playerId]_vars

\* The same for the connections that are bound to a match whose handleJoinQueue
\* has run to its end.
BoundDisconnectKeepsMatch ==
    [][\A c \in open \ open' :
          LET playerId == sockData[c].playerId
              gameId == sockData[c].gameId
          IN  (playerId # NoId /\ gameId \notin pending) =>
                  IF gameId # NoId
                  THEN DisconnectKeepsMatch(c, playerId, gameId)
                  ELSE \A i \in 1 .. Len(queue') : queue'[i] # playerId]_vars

\* A connection of the match closed before handleJoinQueue bound it: the match is
\* registered, the player is in it, and nothing marks the player or tells the opponent.
MatchedPlayerLeftUnmarked ==
    \E g \in registry, k \in 1 .. 2 :
        LET playerId == games[g].players[k]
        IN  /\ findSocketByPlayerId(playerId) = NoConn
            /\ \A c \in open : sockData[c].playerId # playerId
            /\ now - players[playerId].lastActivity < DISCONNECT_MARK

\* While the opponent has no open connection, the player who remains is served:
\* a placement onto free cells in the placement phase is valid, and a shot in turn at
\* a fresh cell in the playing phase is accepted.
RemainingPlayerServed ==
    \A c \in open :
        LET playerId == sockData[c].playerId
            gameId == sockData[c].gameId
        IN  (/\ playerId # NoId
             /\ gameId # NoId
             /\ HasGame(gameId)
             /\ InGame(games[gameId], playerId)
             /\ \A o \in open : sockData[o].playerId # Opponent(games[gameId], playerId))
            => /\ \A in \in ConnPlaceInputs :
                      (/\ games[gameId].phase = "placement"
                       /\ \A i \in 1 .. Len(in[2]) :
                              players[playerId].board.grid[in[2][i]].state = "empty")
                          => placeShip(gameId, playerId, in[1], in[2]).success
               /\ \A position \in PlanCells :
                      FirstShotError(games[gameId], playerId, position) = "accepted"
                          => fireShot(gameId, playerId, position).success
               /\ (/\ games[gameId].phase = "placement"
                   /\ areAllShipsPlaced(players[playerId].board.ships))
                      => setPlayerReady(gameId, playerId).players[playerId].isReady

\* The opponent of a connected player has no connection left, in each phase.
OpponentGoneWhilePlacing ==
    \E c \in open :
        /\ sockData[c].gameId # NoId
        /\ HasGame(sockData[c].gameId)
        /\ games[sockData[c].gameId].phase = "placement"
        /\ \A o \in open : sockData[o].playerId
                              # Opponent(games[sockData[c].gameId], sockData[c].playerId)

\* The players of a match whose session is this connection, and those whose last
\* activity is more than the reconnect threshold ago.
SlotsOf(gameId, c) ==
    {games[gameId].players[k] : k \in 1 .. 2} \cap
        {p \in DOMAIN players : players[p].sessionId = c}
StaleSlots(gameId) ==
    {games[gameId].players[k] : k \in 1 .. 2} \cap
        {p \in DOMAIN players : now - players[p].lastActivity > RECONNECT_STALE}

\* The step changed no player, no binding of a connection and no room.
BindingsUntouched ==
    /\ players' = players
    /\ sockData' = sockData
    /\ rooms' = rooms
    /\ games' = games
    /\ registry' = registry
    /\ socketRegistry' = socketRegistry
    /\ reverseSocketRegistry' = reverseSocketRegistry

ReconnectToUnknownMatch ==
    outbox = <<Msg("s3", ErrorMsg("Game not found"))>>

\* A connection took over a slot.
ReconnectedToStaleSlot ==
    /\ sockData["s3"].gameId # NoId
    /\ "s3" \in open

\* C23: the generation of the background image never delays the start of a match:
\* once join-queue has paired two players, each of them has been sent game-found and
\* the first game state and their place-ship requests are served, whether or not
\* the provider has returned; so while the provider is still out, every open
\* connection of a player of the match is bound to it.
C23_PlayableWhileImagePending ==
    \A gameId \in pending, c \in open :
        (sockData[c].playerId # NoId /\ InGame(games[gameId], sockData[c].playerId))
            => /\ sockData[c].gameId = gameId
               /\ gameId \in rooms[c]

\* A player of a registered match asked to place a ship while the provider was out
\* and was told there is no active game.
PlaceRefusedWhileImagePending ==
    \E gameId \in pending, c \in open :
        /\ HasGame(gameId)
        /\ sockData[c].playerId # NoId
        /\ InGame(games[gameId], sockData[c].playerId)
        /\ outbox = <<Msg(c, ErrorMsg("No active game"))>>

\* A match is due for removal: one of its players has been inactive for longer than
\* the disconnect timeout, or the match is older than the maximum lifetime.
Expired(g) ==
    \/ \E p \in DOMAIN players :
           InGame(games[g], p) /\ now - players[p].lastActivity > GAME_TIMEOUT
    \/ now - games[g].createdAt > GAME_MAX_AGE

PlacementMatchPurged == games # <<>> /\ registry = {} /\ games[1].phase = "placement"
FinishedMatchPurged == games # <<>> /\ registry = {} /\ games[1].phase = "finished"
PurgedForAgeAlone ==
    /\ games # <<>>
    /\ registry = {}
    /\ \A k \in 1 .. 2 : players[games[1].players[k]].lastActivity = now
KeptAtMaxAge ==
    /\ registry # {}
    /\ outbox = <<>>
    /\ now - games[1].createdAt = GAME_MAX_AGE
    /\ \A k \in 1 .. 2 : players[games[1].players[k]].lastActivity = now
KeptAtTimeout ==
    /\ registry # {}
    /\ outbox = <<>>
    /\ \E k \in 1 .. 2 : now - players[games[1].players[k]].lastActivity = GAME_TIMEOUT

\* The step sends connection c game-found for this player and match and, right after
\* it, the game state as this player is to see it.
FoundThenOwnView(c, gameId, playerId) ==
    \E i \in 1 .. Len(outbox') - 1 :
        /\ outbox'[i].to = c
        /\ outbox'[i].msg.type = "game-found"
        /\ outbox'[i].msg.gameId = gameId
        /\ outbox'[i].msg.playerId = playerId
        /\ outbox'[i + 1] = Msg(c, [type |-> "game-state", game |-> gameId,
                                    playerId |-> playerId])
        /\ \A j \in 1 .. i - 1 :
               outbox'[j].to = c => outbox'[j].msg.type \notin {"game-found", "game-state"}

NotifiedTheOneStillOpen ==
    /\ Len(outbox) = 2
    /\ outbox[1].msg.type = "game-found"
    /\ pending = {}

\* The game without connection churn, with a provider whose call always returns or
\* fails in the end, so that handleJoinQueue gets past its await.
SpecJoinFair == Spec /\ WF_vars(\E gid \in GameIds : JoinResume(gid))

\* With such a provider every pairing leads to both players' connections being bound
\* to the registered match.
PairingLeadsToBound ==
    \A gameId \in GameIds :
        (gameId \in pending)
            ~> (/\ gameId \in registry
                /\ \A k \in 1 .. 2 :
                       \E c \in open : /\ sockData[c].playerId = games[gameId].players[k]
                                       /\ sockData[c].gameId = gameId)

\* C31: in phase placement, placeShip with an empty list of positions succeeds for
\* every ship of the player's fleet, placed or not; afterwards the ship has no
\* positions, is not placed and none of its former cells is a ship cell; nothing
\* else of the player and no other player changes; and unplacing once more, or
\* unplacing a ship that is not placed, changes nothing.
C31_UnplaceLegalAndIdempotent ==
    \A gameId \in registry, playerId \in DOMAIN players :
        (games[gameId].phase = "placement" /\ InGame(games[gameId], playerId)) =>
            \A i \in 1 .. Len(players[playerId].board.ships) :
                LET before == players[playerId]
                    ship == before.board.ships[i]
                    r == placeShip(gameId, playerId, ship.id, <<>>)
                    after == r.players[playerId]
                IN  /\ r.success
                    /\ after.board.ships[i].positions = <<>>
                    /\ ~after.board.ships[i].isPlaced
                    /\ \A k \in 1 .. Len(ship.positions) :
                           after.board.grid[ship.positions[k]].state # "ship"
                    /\ \A pos \in Pos :
                           (\A k \in 1 .. Len(ship.positions) : ship.positions[k] # pos)
                               => after.board.grid[pos] = before.board.grid[pos]
                    /\ \A j \in 1 .. Len(before.board.ships) :
                           j # i => after.board.ships[j] = before.board.ships[j]
                    /\ after.isReady = before.isReady
                    /\ after.board.shipsRemaining = before.board.shipsRemaining
                    /\ \A other \in DOMAIN players :
                           other # playerId => r.players[other] = players[other]
                    /\ removeShipFromBoard(after, i) = after
                    /\ ~ship.isPlaced => r.players = players

\* A placed ship was taken off the board next to another ship that stays.
C31_ShipTakenOff ==
    /\ Len(outbox) >= 1
    /\ outbox[1].msg.type = "ship-placed"
    /\ outbox[1].msg.isValid
    /\ ~outbox[1].msg.ship.isPlaced
    /\ \E p \in DOMAIN players :
           /\ players[p].board.ships[1].isPlaced
           /\ ~players[p].board.ships[2].isPlaced
           /\ \A pos \in Pos : players[p].board.grid[pos].shipId # "destroyer-1"

\* The ship of this fleet that is placed on the cell (0: none).
PlacedShipAt(board, pos) ==
    IF \E i \in 1 .. Len(board.ships) :
           board.ships[i].isPlaced /\ pos \in CellsOf(board.ships[i])
    THEN CHOOSE i \in 1 .. Len(board.ships) :
             board.ships[i].isPlaced /\ pos \in CellsOf(board.ships[i])
    ELSE 0

\* The result the step reports for a shot at this position.
Reported(position, result, shipSunk) ==
    \E i \in 1 .. Len(outbox') :
        /\ outbox'[i].msg.type = "shot-result"
        /\ outbox'[i].msg.position = position
        /\ outbox'[i].msg.result = result
        /\ outbox'[i].msg.shipSunk = shipSunk

\* In every fleet the sunk flag of a placed ship is set exactly when all its cells
\* are sunk, and no ship has sunk cells next to cells that are not.
SunkFlagsMatchCells ==
    \A p \in DOMAIN players :
        \A i \in 1 .. Len(players[p].board.ships) :
            LET ship == players[p].board.ships[i]
                sunkCells == {pos \in CellsOf(ship) :
                                 players[p].board.grid[pos].state = "sunk"}
            IN  /\ ship.isPlaced => (ship.isSunk <=> sunkCells = CellsOf(ship))
                /\ ~ship.isPlaced => ~ship.isSunk
                /\ sunkCells = {} \/ sunkCells = CellsOf(ship)

\* C32: an accepted shot at a cell of a placed ship of the opponent turns the cell
\* to hit and reports hit, unless every cell of that ship is then hit: in that case
\* all cells of the ship become sunk, its flag is set and the shot reports sunk with
\* that ship; a shot at any other cell turns it to miss and reports miss; no other
\* cell and no other ship changes.  So in every state the sunk flag of a ship is set
\* if and only if all its cells are sunk, and no ship is sunk in part.
C32_ShotResolution ==
    [][/\ SunkFlagsMatchCells'
       /\ \A a \in accepted' \ accepted :
             LET o == Opponent(games[a.game], a.player)
                 before == players[o].board
                 after == players'[o].board
                 i == PlacedShipAt(before, a.position)
             IN  IF i = 0
                 THEN /\ after.grid = [before.grid EXCEPT ![a.position].state = "miss"]
                      /\ after.ships = before.ships
                      /\ Reported(a.position, "miss", NoShip)
                 ELSE IF \A pos \in CellsOf(before.ships[i]) \ {a.position} :
                             before.grid[pos].state = "hit"
                 THEN /\ \A pos \in Pos :
                             after.grid[pos].state =
                                 IF pos \in CellsOf(before.ships[i]) THEN "sunk"
                                 ELSE before.grid[pos].state
                      /\ after.ships = [before.ships EXCEPT ![i].isSunk = TRUE]
                      /\ Reported(a.position, "sunk", before.ships[i].id)
                 ELSE /\ after.grid = [before.grid EXCEPT ![a.position].state = "hit"]
                      /\ after.ships = before.ships
                      /\ Reported(a.position, "hit", NoShip)]_vars

\* A shot has sunk one ship of a fleet whose other ship is hit and not sunk, and a
\* shot has missed.
C32_SunkNextToHit ==
    \E p \in DOMAIN players :
        /\ \E i \in 1 .. Len(players[p].board.ships) : players[p].board.ships[i].isSunk
        /\ \E pos \in Pos : players[p].board.grid[pos].state = "hit"
        /\ \E pos \in Pos : players[p].board.grid[pos].state = "miss"
        /\ \E i \in 1 .. Len(outbox) :
               outbox[i].msg.type = "shot-result" /\ outbox[i].msg.result = "sunk"

\* The ships of a fleet that are placed and not sunk.
ShipsAfloat(board) ==
    {i \in 1 .. Len(board.ships) : board.ships[i].isPlaced /\ ~board.ships[i].isSunk}

\* C33: in every state, in a match in phase playing or finished each player's
\* shipsRemaining is the number of that player's ships that are placed and not sunk,
\* so that sinking all placed ships of a player brings the count to 0 and ends the
\* match.
C33_RemainingIsPlacedAfloat ==
    \A g \in registry :
        games[g].phase \in {"playing", "finished"}
            => \A k \in 1 .. 2 :
                   LET board == players[games[g].players[k]].board
                   IN  board.shipsRemaining = Cardinality(ShipsAfloat(board))

\* A playing match that cannot be won: every placed ship of a player is sunk, the
\* player's shipsRemaining is not 0 and the match goes on.
PlayingWithNothingAfloat ==
    \E g \in registry, k \in 1 .. 2 :
        LET board == players[games[g].players[k]].board
        IN  /\ games[g].phase = "playing"
            /\ ShipsAfloat(board) = {}
            /\ board.shipsRemaining > 0
            /\ \E i \in 1 .. Len(board.ships) : board.ships[i].isSunk

\* The queue without the players idle for longer than maxIdle, the rest in order.
WithoutStale(q, maxIdle) ==
    SelectSeq(q, LAMBDA id : now - players[id].lastActivity <= maxIdle)

\* C34: a purge of the queue removes exactly the queued players whose idle time
\* (now - lastActivity) is greater than the timeout and keeps all others in their
\* order, a player idle for exactly the timeout included; it changes no match and no
\* player.
C34_PurgeRemovesExactlyStale ==
    [][CleanupInterval =>
          /\ queue' = WithoutStale(queue, INACTIVE_TIMEOUT)
          /\ games' = games
          /\ players' = players]_vars

\* The same purge called on the service, where no player is idle for exactly the
\* timeout: the players idle for longer go, the others stay in order, and matches
\* and players are as before.
PurgeAwayFromThreshold ==
    [][CleanupInactivePlayers =>
          /\ queue' = WithoutStale(queue, INACTIVE_TIMEOUT)
          /\ games' = games
          /\ players' = players
          /\ registry' = registry]_vars

\* What the purge does at the threshold: the player idle for exactly the timeout
\* goes too.
PurgeAtThreshold ==
    [][CleanupInterval =>
          /\ queue' = SelectSeq(queue, LAMBDA id :
                                    now - players[id].lastActivity < INACTIVE_TIMEOUT)
          /\ games' = games
          /\ players' = players]_vars

\* A player idle for exactly the timeout is waiting in the queue.
QueuedAtThreshold ==
    \E i \in 1 .. Len(queue) : now - players[queue[i]].lastActivity = INACTIVE_TIMEOUT

\* The first player of the match, in its order, that is in the set.
FirstIn(gameId, slots) ==
    IF games[gameId].players[1] \in slots THEN games[gameId].players[1]
    ELSE games[gameId].players[2]

\* The slot a reconnect is to take: the caller's own if there is one, and else the
\* first stale one.
PreferredSlot(gameId, c) ==
    IF SlotsOf(gameId, c) # {} THEN FirstIn(gameId, SlotsOf(gameId, c))
    ELSE FirstIn(gameId, StaleSlots(gameId))

\* C35: a reconnect that succeeds takes the slot of a player whose sessionId is the
\* calling connection if there is one, and otherwise the slot of the first player,
\* in the order of the match, whose lastActivity is more than 30 s ago; that
\* player's sessionId becomes the calling connection and its lastActivity the time
\* of the call, the other player is unchanged, the connection is bound to the slot,
\* and the opponent's connection in the match is sent player-reconnected.
C35_ReconnectSlotChoice ==
    [][\A c \in ReconnectConns, gameId \in GameIds :
          (/\ handleReconnectGame(c, gameId)
           /\ HasGame(gameId)
           /\ SlotsOf(gameId, c) \cup StaleSlots(gameId) # {})
              => LET slot == PreferredSlot(gameId, c)
                 IN  /\ players' = [players EXCEPT ![slot].sessionId = c,
                                                   ![slot].lastActivity = now]
                     /\ sockData' = [sockData EXCEPT
                                        ![c] = [playerId |-> slot, gameId |-> gameId]]
                     /\ games' = games
                     /\ \A o \in open \ {c} :
                            (/\ sockData[o].gameId = gameId
                             /\ sockData[o].playerId = Opponent(games[gameId], slot)
                             /\ gameId \in rooms[o])
                                => \E i \in 1 .. Len(outbox') :
                                       outbox'[i] = Msg(o, [type |-> "player-reconnected"])
                     /\ \E i \in 1 .. Len(outbox') :
                            outbox'[i] = Msg(c, [type |-> "game-state", game |-> gameId,
                                                 playerId |-> slot])]_vars

\* A connection has come back to its own slot, the second of the match, while the
\* first player was stale, and the opponent was told.
C35_OwnSlotBeforeStaleFirst ==
    /\ 1 \in registry
    /\ sockData["s3"] = [playerId |-> games[1].players[2], gameId |-> 1]
    /\ players[games[1].players[2]].sessionId = "s3"
    /\ players[games[1].players[2]].lastActivity = now
    /\ now - players[games[1].players[1]].lastActivity > RECONNECT_STALE
    /\ Len(outbox) >= 2
    /\ outbox[1] = Msg("s1", [type |-> "player-reconnected"])

\* A connection has taken the first of two stale slots.
TookFirstOfTwoStale ==
    /\ 1 \in registry
    /\ sockData["s3"] = [playerId |-> games[1].players[1], gameId |-> 1]
    /\ players[games[1].players[1]].lastActivity = now
    /\ now - players[games[1].players[2]].lastActivity > RECONNECT_STALE
    /\ Len(outbox) >= 1
    /\ outbox[Len(outbox)].msg.type = "game-state"
    /\ outbox[Len(outbox)].to = "s3"

\* C36: a reconnect never takes over the slot of a player who is still connected:
\* in every step the sessionId of a player changes only if the connection it was
\* bound to has disconnected.
C36_NoTakeoverOfConnected ==
    [][\A p \in DOMAIN players :
          players'[p].sessionId # players[p].sessionId
              => players[p].sessionId \notin open]_vars

\* A third connection holds the identity of a player whose own connection is still
\* open and bound to that player.
ConnectedPlayerTakenOver ==
    \E p \in DOMAIN players, c \in open \ {"s3"} :
        /\ "s3" \in open
        /\ sockData["s3"].playerId = p
        /\ players[p].sessionId = "s3"
        /\ sockData[c].playerId = p
        /\ sockData[c].gameId = sockData["s3"].gameId
        /\ socketRegistry[p] = c

\* C37: once a connection has been rebound to a player by reconnect-game, it is the
\* one that receives the later broadcasts for that player: a step that broadcasts
\* the state of the match to the other player sends this player's state to the
\* connection that is the player's session (the reply of reconnect-game itself is
\* no broadcast).
C37_BroadcastReachesRebound ==
    [][\A c \in open, p \in DOMAIN players :
          (/\ players[p].sessionId = c
           /\ sockData[c].playerId = p
           /\ sockData[c].gameId # NoId
           /\ HasGame(sockData[c].gameId)
           /\ InGame(games[sockData[c].gameId], p)
           /\ ~ \E caller \in ReconnectConns, gid \in GameIds :
                    handleReconnectGame(caller, gid)
           /\ \E i \in 1 .. Len(outbox') :
                  /\ outbox'[i].msg.type = "game-state"
                  /\ outbox'[i].msg.game = sockData[c].gameId
                  /\ outbox'[i].msg.playerId # p)
              => \E j \in 1 .. Len(outbox') :
                     outbox'[j] = Msg(c, [type |-> "game-state",
                                          game |-> sockData[c].gameId, playerId |-> p])]_vars

\* The state of the match has gone out to one player and not to the connection that
\* has reconnected as the other, whose first connection is closed.
ReboundLeftOutOfBroadcast ==
    \E p \in DOMAIN players :
        /\ "s3" \in open
        /\ players[p].sessionId = "s3"
        /\ sockData["s3"].playerId = p
        /\ "s2" \notin open
        /\ \E i \in 1 .. Len(outbox) :
               outbox[i].msg.type = "game-state" /\ outbox[i].msg.playerId # p
        /\ \A i \in 1 .. Len(outbox) : outbox[i].to # "s3"

\* The queue entries of the players this connection is the session of.
QueueEntriesOf(c) == {i \in 1 .. Len(queue) : players[queue[i]].sessionId = c}

\* C38: a connection owns at most one player at a time: no connection has two
\* players in the queue, the two players of every registered match are bound to two
\* different connections, and no player of a connection that has disconnected is
\* left in the queue.
C38_OneIdentityPerConnection ==
    /\ \A c \in Conns : Cardinality(QueueEntriesOf(c)) <= 1
    /\ \A g \in registry :
           players[games[g].players[1]].sessionId # players[games[g].players[2]].sessionId
    /\ \A c \in Conns \ open : QueueEntriesOf(c) = {}

\* A connection that has asked to join twice is paired with itself and told so.
PairedWithItself ==
    \E g \in registry \ pending, c \in open :
        /\ \A k \in 1 .. 2 : players[games[g].players[k]].sessionId = c
        /\ sockData[c].gameId = g
        /\ Len(outbox) = 4
        /\ \A i \in 1 .. 4 : outbox[i].to = c

\* A player waits in the queue whose connection has gone.
QueuedWithoutConnection == \E c \in Conns \ open : QueueEntriesOf(c) # {}

\* C39: a disconnect that arrives while handleJoinQueue waits for the background,
\* after the pairing and before game-found, is applied to the match: the step in
\* which the connection of a player of such a match closes marks that player
\* inactive in it.
C39_DisconnectWhileJoinSuspended ==
    [][\A c \in open \ open', gameId \in pending :
          (/\ sockData[c].playerId # NoId
           /\ HasGame(gameId)
           /\ InGame(games[gameId], sockData[c].playerId))
              => players'[sockData[c].playerId].lastActivity = now - DISCONNECT_MARK]_vars

\* The opponent has been sent game-found for a match whose other player has no
\* connection and still counts as active.
OpponentLeftWithAbsentPlayer ==
    \E g \in registry \ pending, k \in 1 .. 2 :
        LET gone == games[g].players[k]
            opp == games[g].players[3 - k]
        IN  /\ \A c \in open : sockData[c].playerId # gone
            /\ now - players[gone].lastActivity < RECONNECT_STALE
            /\ \E c \in open : sockData[c] = [playerId |-> opp, gameId |-> g]
            /\ \E i \in 1 .. Len(outbox) :
                   outbox[i].msg.type = "game-found" /\ outbox[i].msg.playerId = opp

\* C40: a queued player whose connection stays open stays in the queue until paired
\* (no client of this specification leaves the queue), so a second player who joins
\* meets the first and the two are paired, however long the first has waited: no
\* step takes a player with an open connection off the queue without putting the
\* player in a new match.
C40_WaitingPlayerStaysQueued ==
    [][\A i \in 1 .. Len(queue) :
          players[queue[i]].sessionId \in open'
              => \/ \E j \in 1 .. Len(queue') : queue'[j] = queue[i]
                 \/ \E g \in DOMAIN games' \ DOMAIN games :
                        InGame(games'[g], queue[i])]_vars

\* The second player has joined while the first is connected and has not left, and
\* waits alone in the queue: the two are not paired.
SecondJoinerWaitsAlone ==
    /\ Len(players) = 2
    /\ open = Conns
    /\ games = <<>>
    /\ queue = <<2>>
    /\ outbox = <<Msg("s2", [type |-> "queue-joined"])>>

====
